---- MODULE Spec2Model ----
(***************************************************************************)
(* Session and fan-out engine of the agent console: the AgentManager       *)
(* (registry, tabs, PTYs, sequenced output buffer, control-owner map) and  *)
(* the per-connection WSHandler, as one state machine.  Node's event loop  *)
(* runs one callback at a time, so every handler is one atomic action;     *)
(* the two async methods (createAgent, deleteAgent) are split at their     *)
(* await.  Log-file writes touch no modelled state and are left out.       *)
(***************************************************************************)
EXTENDS Integers, Sequences, FiniteSets, TLC

\* ---------------------------------------------------------------- universe
\* the ids uuidv4 hands out, in the order it hands them out
AgentOrder == <<"a1", "a2">>
TabOrder   == <<"t1", "t2", "t3">>
AgentIds  == {AgentOrder[i] : i \in 1..Len(AgentOrder)}
TabIds    == {TabOrder[i] : i \in 1..Len(TabOrder)}
ClientIds == {"c1", "c2"}
\* the client the one-viewer scenarios follow
Viewer    == "c1"
NoAgent   == "none"
NoTab     == "none"
NoClient  == "none"
\* a tab id a client can put in a frame although no tab ever had it
BogusTab  == "tx"

\* program constants, scaled down so that trimming and the synchronous
\* flush happen within the explored runs (1000 / 4096 / 50000 in the source)
MAX_CHUNKS     == 2
MAX_CHUNK_SIZE == 3
PERSIST_LIMIT  == 3
\* the delay of the flush timer, in ticks of the clock (50 ms in the source)
FLUSH_DEBOUNCE == 3

\* bounds of the exploration
BufferBytes == 3  \* bytes the PTYs deliver in the buffer scenario
FanoutBytes == 3  \* bytes the PTYs deliver in the fan-out scenario
ClientBytes == 1  \* bytes the PTYs deliver in the browser scenario
ShutdownBytes == 4  \* bytes the PTYs deliver in the shutdown scenario
MaxMerges == 2   \* merge commits made on one branch in a run
TimedBytes == 4  \* bytes the PTYs deliver in the timed scenario
MaxTime == 5     \* ticks of the clock in the timed scenario
MaxCommits == 2  \* auto-commits made in the worktree in a run
CloseBytes == 2  \* bytes the PTYs deliver in the close scenario
MaxWrite  == 2   \* longest single PTY write
MaxPty    == 2   \* PTYs spawned in a run

PtyIds == 1..MaxPty
\* the two panels of the split view (indices 0 and 1 in the source)
PanelIds == {1, 2}
NoPty  == 0

\* the byte that stands for a restored scrollback
SeedData == <<0>>

VARIABLES
  agents,          \* AgentManager.agents: ids in the registry
  tabs,            \* agentProcess.tabs: ordered tab ids, per agent object
  tabAgent,        \* the agent a tab id was created for (NoAgent: id unused)
  tabName,         \* info.name: 0 = "Terminal", n = "Terminal n"
  tabStatus,       \* info.status
  tabPty,          \* tabProcess.pty (NoPty = null)
  outputChunks,    \* tabProcess.outputChunks
  currentSeq,      \* tabProcess.currentSeq
  pendingData,     \* tabProcess.pendingData
  agentStatus,     \* agent.status
  controlOwners,   \* Map key -> clientId, as a set of entries
  flushTimers,     \* keys of AgentManager.flushTimers
  ptys,            \* node-pty processes: state and the (agent, tab) of its closures
  creating,        \* createAgent calls waiting for createWorktree
  deleting,        \* deleteAgent calls waiting for removeWorktree
  persistedAgents, \* ids in .aiagent-local.json
  persistedBuffer, \* their outputBuffer
  allocated,       \* agent ids uuidv4 has handed out (or the file held)
  conn,            \* WebSocket of each WSHandler: "none", "open", "closed"
  attachedAgentId, \* WSHandler.attachedAgentId
  attachedTabId,   \* WSHandler.attachedTabId
  sent,            \* frames ws.send() delivered during the last step, per client
  ptyIn,           \* pty.write / pty.resize calls of the last step
  op,              \* the last handler that ran
  pub,             \* history: pty-data events emitted, per tab, in order
  written,         \* history: bytes received from the PTYs, per tab
  origin,          \* history: how a tab id came to be: "none", "created",
                   \*   "restored" (empty scrollback) or "seeded"
  attachSeq,       \* history: getLastSeq of the tab when the client attached
  got,             \* history: seqs of the output frames sent since the attach
  panels,          \* App: panels[i] = {agentId, tabId} of the Viewer's browser
  activePanel,     \* App: activePanel
  lastSeqMap,      \* App: lastSeqMap, key agentId:tabId (-1: no entry)
  termWrites,      \* chunks written to each panel's terminal since its last clear()
  repo,            \* the source repository: HEAD, branch tips, merge in progress
  merge,           \* the tryLocalMerge call in flight and its local variables
  worktree,        \* the agent's worktree: uncommitted changes, commits made
  pick,            \* the last target-branch detection: what it saw and chose
  now,             \* the clock, in ticks of a third of the flush delay
  timerDue,        \* when the timer of each key of flushTimers fires (-1: none)
  writeLog,        \* history: the PTY writes each tab received, with their time
  pubAt,           \* history: the time each chunk of pub was published
  httpReply,       \* the last HTTP response sent, none while a request awaits
  tabSupply,       \* how many of the ids of TabOrder uuidv4 hands out to tabs
  toldControl      \* history: the hasControl last sent to each client

vars == <<agents, tabs, tabAgent, tabName, tabStatus, tabPty, outputChunks,
          currentSeq, pendingData, agentStatus, controlOwners, flushTimers,
          ptys, creating, deleting, persistedAgents, persistedBuffer,
          allocated, conn,
          attachedAgentId, attachedTabId, sent, ptyIn, op, pub, written,
          origin, attachSeq, got, panels, activePanel, lastSeqMap, termWrites,
          repo, merge, worktree, pick, now, timerDue, writeLog, pubAt, httpReply, tabSupply, toldControl>>

\* the browser state of the Viewer
uiVars == <<panels, activePanel, lastSeqMap, termWrites>>

\* the source repository and the merge call
gitVars == <<repo, merge, worktree, pick>>

\* the clock and what is recorded against it
timeVars == <<now, timerDue, writeLog, pubAt>>

\* everything but the source repository and the merge call
serverVars == <<agents, tabs, tabAgent, tabName, tabStatus, tabPty,
                outputChunks, currentSeq, pendingData, agentStatus,
                controlOwners, flushTimers, ptys, creating, deleting,
                persistedAgents, persistedBuffer, allocated, conn,
                attachedAgentId, attachedTabId, pub, written, origin,
                attachSeq, got, uiVars, timeVars, httpReply, tabSupply, toldControl>>

\* ------------------------------------------------------------------ helpers
Range(s) == {s[i] : i \in 1..Len(s)}

RECURSIVE Concat(_)
Concat(ss) == IF ss = <<>> THEN <<>> ELSE Head(ss) \o Concat(Tail(ss))

\* String.prototype.slice(-n)
SliceLast(s, n) == IF Len(s) <= n THEN s ELSE SubSeq(s, Len(s) - n + 1, Len(s))

\* Array.prototype.slice(-n)
ArraySliceLast(s, n) == IF Len(s) <= n THEN s ELSE SubSeq(s, Len(s) - n + 1, Len(s))

Remove(s, x) == SelectSeq(s, LAMBDA y : y # x)

NoFrames == [c \in ClientIds |-> <<>>]

Frame(type, a, t, flag, data, seq) ==
  [type |-> type, agentId |-> a, tabId |-> t, hasControl |-> flag,
   data |-> data, seq |-> seq]

Op(name, c, a, t) == [name |-> name, client |-> c, agentId |-> a, tabId |-> t]

\* ----------------------------------------------------------- Map primitives
MapHas(m, k) == \E e \in m : e.key = k
MapGet(m, k) == IF MapHas(m, k) THEN (CHOOSE e \in m : e.key = k).val ELSE NoClient
MapDelete(m, k) == {e \in m : e.key # k}
MapSet(m, k, v) == {e \in m : e.key # k} \cup {[key |-> k, val |-> v]}

getControlKey(a, t) == <<a, t>>

\* this.agents.get(agentId)?.tabs.get(tabId)
TabProcessOf(a, t) == a \in agents /\ t \in Range(tabs[a])

getControlOwner(a, t) == MapGet(controlOwners, getControlKey(a, t))
hasControl(a, t, c) == MapGet(controlOwners, getControlKey(a, t)) = c

getPty(a, t) == IF TabProcessOf(a, t) THEN tabPty[t] ELSE NoPty

getLastSeq(a, t) == IF TabProcessOf(a, t) THEN currentSeq[t] - 1 ELSE -1

\* variant: filter(c => c.seq > fromSeq)
getOutputChunksExclusive(a, t, fromSeq) ==
  IF ~TabProcessOf(a, t)
  THEN [chunks |-> <<>>, lastSeq |-> -1]
  ELSE [chunks |-> SelectSeq(outputChunks[t], LAMBDA c : c.seq > fromSeq),
        lastSeq |-> currentSeq[t] - 1]

getOutputChunks(a, t, fromSeq) ==
  IF ~TabProcessOf(a, t)
  THEN [chunks |-> <<>>, lastSeq |-> -1]
  ELSE [chunks |-> SelectSeq(outputChunks[t], LAMBDA c : c.seq >= fromSeq),
        lastSeq |-> currentSeq[t] - 1]

RECURSIVE SumLen(_)
SumLen(cs) == IF cs = <<>> THEN 0 ELSE Len(Head(cs).data) + SumLen(Tail(cs))

getBufferStats(a, t) ==
  IF ~TabProcessOf(a, t) \/ Len(outputChunks[t]) = 0
  THEN [chunkCount |-> 0, totalSize |-> 0, firstSeq |-> -1, lastSeq |-> -1]
  ELSE [chunkCount |-> Len(outputChunks[t]),
        totalSize  |-> SumLen(outputChunks[t]),
        firstSeq   |-> outputChunks[t][1].seq,
        lastSeq    |-> currentSeq[t] - 1]

\* outputChunks.map(c => c.data).join('')
HistoryOf(chunks) == Concat([i \in 1..Len(chunks) |-> chunks[i].data])

\* variant: only the newest chunk is read
getOutputHistoryNewest(a, t) ==
  IF ~TabProcessOf(a, t) \/ outputChunks[t] = <<>> THEN <<>>
  ELSE outputChunks[t][Len(outputChunks[t])].data

getOutputHistory(a, t) ==
  IF ~TabProcessOf(a, t) THEN <<>> ELSE HistoryOf(outputChunks[t])

\* -------------------------------------------------------- source repository
\* local branches of the source repository a merge can target
Branches == {"main", "dev"}

\* HEAD on branch b at its tip; a commit is named by branch and merge count
HeadOn(b, tips) == [branch |-> b, commit |-> <<b, tips[b]>>]

\* HEAD detached at the tip of b: `git branch --show-current` prints nothing
Detached(b, tips) == [branch |-> "", commit |-> <<b, tips[b]>>]

\* no tryLocalMerge call in flight
NoCall == [pc |-> "idle", agentId |-> NoAgent, targetBranch |-> "",
           originalBranch |-> "", preHead |-> HeadOn("main", [b \in Branches |-> 0]),
           preTip |-> 0, inTry |-> FALSE, result |-> "none"]

\* branch names the target detection can meet
TargetNames == {"main", "master", "dev"}

\* no target detection has run
NoPick == [override |-> "", originHead |-> "", locals |-> {}, target |-> ""]

\* ----------------------------------------------------------- HTTP replies
HttpReply(route, status) == [route |-> route, status |-> status]
NoReply == HttpReply("none", 0)

\* ------------------------------------------------------------ construction
\* what .aiagent-local.json can hold for agent a1 when the process starts
PersistedFiles ==
  {{}} \cup
  {{[id |-> "a1", workDirExists |-> w, outputBuffer |-> b]} :
      w \in BOOLEAN, b \in {<<>>, SeedData}}

\* variant: an entry whose worktree is gone is skipped but stays in the file
loadPersistedAgentsKeepsFile(file) ==
  LET admitted == {pa \in file : pa.workDirExists}
      bufOf(a) == (CHOOSE pa \in file : pa.id = a).outputBuffer
      has(a)   == \E pa \in admitted : pa.id = a
      seedOf(t) == IF t = "t1" /\ has("a1") /\ bufOf("a1") # <<>>
                   THEN <<[seq |-> 0, data |-> bufOf("a1")]>> ELSE <<>>
  IN
  /\ agents = {pa.id : pa \in admitted}
  /\ tabs = [a \in AgentIds |-> IF a = "a1" /\ has(a) THEN <<"t1">> ELSE <<>>]
  /\ tabAgent = [t \in TabIds |-> IF t = "t1" /\ has("a1") THEN "a1" ELSE NoAgent]
  /\ tabName = [t \in TabIds |-> 0]
  /\ tabStatus = [t \in TabIds |-> "idle"]
  /\ tabPty = [t \in TabIds |-> NoPty]
  /\ outputChunks = [t \in TabIds |-> seedOf(t)]
  /\ currentSeq = [t \in TabIds |-> Len(seedOf(t))]
  /\ pendingData = [t \in TabIds |-> <<>>]
  /\ agentStatus = [a \in AgentIds |-> "idle"]
  /\ persistedAgents = {pa.id : pa \in file}
  /\ persistedBuffer = [a \in AgentIds |-> IF has(a) THEN bufOf(a) ELSE <<>>]
  /\ allocated = {pa.id : pa \in file}
  /\ origin = [t \in TabIds |->
                IF tabAgent[t] = NoAgent THEN "none"
                ELSE IF seedOf(t) = <<>> THEN "restored" ELSE "seeded"]

\* loadPersistedAgents over one file: a1, when admitted, gets the tab t1
loadPersistedAgents(file) ==
  LET admitted == {pa \in file : pa.workDirExists}
      bufOf(a) == (CHOOSE pa \in file : pa.id = a).outputBuffer
      has(a)   == \E pa \in admitted : pa.id = a
      seedOf(t) == IF t = "t1" /\ has("a1") /\ bufOf("a1") # <<>>
                   THEN <<[seq |-> 0, data |-> bufOf("a1")]>> ELSE <<>>
  IN
  /\ agents = {pa.id : pa \in admitted}
  /\ tabs = [a \in AgentIds |-> IF a = "a1" /\ has(a) THEN <<"t1">> ELSE <<>>]
  /\ tabAgent = [t \in TabIds |-> IF t = "t1" /\ has("a1") THEN "a1" ELSE NoAgent]
  /\ tabName = [t \in TabIds |-> 0]
  /\ tabStatus = [t \in TabIds |-> "idle"]
  /\ tabPty = [t \in TabIds |-> NoPty]
  /\ outputChunks = [t \in TabIds |-> seedOf(t)]
  /\ currentSeq = [t \in TabIds |-> Len(seedOf(t))]
  /\ pendingData = [t \in TabIds |-> <<>>]
  /\ agentStatus = [a \in AgentIds |-> "idle"]
  /\ persistedAgents = {pa.id : pa \in admitted}
  /\ persistedBuffer = [a \in AgentIds |-> IF has(a) THEN bufOf(a) ELSE <<>>]
  /\ allocated = {pa.id : pa \in file}
  /\ origin = [t \in TabIds |->
                IF tabAgent[t] = NoAgent THEN "none"
                ELSE IF seedOf(t) = <<>> THEN "restored" ELSE "seeded"]

\* the server after the constructor of the AgentManager has run
Boot ==
  /\ \E file \in PersistedFiles : loadPersistedAgents(file)
  /\ controlOwners = {}
  /\ flushTimers = {}
  /\ ptys = [p \in PtyIds |-> [state |-> "unborn", agentId |-> NoAgent, tabId |-> NoTab]]
  /\ creating = {}
  /\ deleting = {}
  /\ conn = [c \in ClientIds |-> "none"]
  /\ attachedAgentId = [c \in ClientIds |-> NoAgent]
  /\ attachedTabId = [c \in ClientIds |-> NoTab]
  /\ sent = NoFrames
  /\ ptyIn = {}
  /\ op = Op("init", NoClient, NoAgent, NoTab)
  /\ pub = [t \in TabIds |-> <<>>]
  /\ written = [t \in TabIds |-> <<>>]
  /\ attachSeq = [c \in ClientIds |-> -1]
  /\ got = [c \in ClientIds |-> <<>>]
  /\ panels = [i \in PanelIds |-> [agentId |-> NoAgent, tabId |-> NoTab]]
  /\ activePanel = 1
  /\ lastSeqMap = [k \in AgentIds \X TabIds |-> -1]
  /\ termWrites = [i \in PanelIds |-> <<>>]
  /\ repo = [head |-> HeadOn("main", [b \in Branches |-> 0]),
             tips |-> [b \in Branches |-> 0], merging |-> FALSE]
  /\ merge = NoCall
  /\ worktree = [dirty |-> FALSE, commits |-> 0]
  /\ pick = NoPick
  /\ now = 0
  /\ timerDue = [k \in AgentIds \X TabIds |-> -1]
  /\ writeLog = [t \in TabIds |-> <<>>]
  /\ pubAt = [t \in TabIds |-> <<>>]
  /\ httpReply = NoReply
  /\ toldControl = [c \in ClientIds |-> "none"]

\* the scenarios that are not about tab names get along with one tab id less
Init ==
  /\ Boot
  /\ tabSupply = Len(TabOrder) - 1

\* the tab-naming scenario draws every id of TabOrder
InitTabs ==
  /\ Boot
  /\ tabSupply = Len(TabOrder)

\* ------------------------------------------------------------ frame groups
regVars     == <<agents, tabs, tabAgent, tabName, creating, deleting, allocated>>
persistVars == <<persistedAgents, persistedBuffer>>
statusVars  == <<tabStatus, agentStatus>>
ptyVars     == <<tabPty, ptys>>
bufVars     == <<outputChunks, currentSeq, pendingData, pub, flushTimers>>
clientVars  == <<conn, attachedAgentId, attachedTabId>>

\* seqs of the live output frames among the frames sent to one client
RECURSIVE LiveSeqs(_)
LiveSeqs(fs) ==
  IF fs = <<>> THEN <<>>
  ELSE (IF Head(fs).type = "output" /\ Head(fs).seq >= 0
        THEN <<Head(fs).seq>> ELSE <<>>) \o LiveSeqs(Tail(fs))

GotAfter(frames) == [d \in ClientIds |-> got[d] \o LiveSeqs(frames[d])]

\* ----------------------------------------------- WSHandler event handlers
\* each yields the frames one handler sends; attA/attT/cn are the handler's
\* attachedAgentId, attachedTabId and socket state when the event is emitted
\* variant: send() does not look at ws.readyState
WSsendAnyState(cn, frames) == frames

WSsend(cn, frames) == IF cn = "open" THEN frames ELSE <<>>

\* variant: the handler compares the agent only
WSHandlePtyDataAnyTab(cn, attA, attT, a, t, data, seq) ==
  IF cn = "open" /\ attA = a
  THEN WSsend(cn, <<Frame("output", a, t, FALSE, data, seq)>>)
  ELSE <<>>

WSHandlePtyData(cn, attA, attT, a, t, data, seq) ==
  IF cn = "open" /\ attA = a /\ attT = t
  THEN WSsend(cn, <<Frame("output", a, t, FALSE, data, seq)>>)
  ELSE <<>>

handleAgentsUpdated(cn) ==
  WSsend(cn, <<Frame("agents-updated", NoAgent, NoTab, FALSE, <<>>, -1)>>)

handleAgentStatus(cn, a, status) ==
  WSsend(cn, <<Frame("agent-status:" \o status, a, NoTab, FALSE, <<>>, -1)>>)

handleTabStatus(cn, attA, a, t, status) ==
  IF attA = a
  THEN WSsend(cn, <<Frame("tab-status:" \o status, a, t, FALSE, <<>>, -1)>>)
  ELSE <<>>

handleControlChanged(cn, self, attA, attT, a, t, newOwnerId) ==
  IF attA = a /\ attT = t
  THEN WSsend(cn, <<Frame("control-changed", NoAgent, NoTab, newOwnerId = self, <<>>, -1)>>)
  ELSE <<>>

handleTabCreated(cn, attA, a, t) ==
  IF attA = a
  THEN WSsend(cn, <<Frame("tab-created", a, t, FALSE, <<>>, -1)>>)
  ELSE <<>>

\* the frame part of handleTabClosed; its state part is TabClosedAttT
handleTabClosed(cn, attA, a, t) ==
  IF attA = a
  THEN WSsend(cn, <<Frame("tab-closed", a, t, FALSE, <<>>, -1)>>)
  ELSE <<>>

\* variant: the handler keeps its attached tab
TabClosedAttTKeeps(attA, attT, a, t) == attT

TabClosedAttT(attA, attT, a, t) ==
  IF attA = a /\ attT = t THEN NoTab ELSE attT

ErrorFrame == Frame("error", NoAgent, NoTab, FALSE, <<>>, -1)

\* a handler is registered on the bus from the constructor to cleanup()
Registered(d) == conn[d] = "open"

\* ------------------------------------------------- sequenced output buffer
\* Variants of addOutputChunk that differ from the code in one point each.
\* seq: currentSeq (the counter is never advanced)
addOutputChunkNoIncrement(chunks, cur, data) ==
  LET chunk  == [seq |-> cur, data |-> data]
      pushed == Append(chunks, chunk)
  IN [chunk        |-> chunk,
      outputChunks |-> IF Len(pushed) > MAX_CHUNKS
                       THEN ArraySliceLast(pushed, MAX_CHUNKS) ELSE pushed,
      currentSeq   |-> cur]

\* seq: ++currentSeq (the counter is advanced before it is read)
addOutputChunkPreIncrement(chunks, cur, data) ==
  LET chunk  == [seq |-> cur + 1, data |-> data]
      pushed == Append(chunks, chunk)
  IN [chunk        |-> chunk,
      outputChunks |-> IF Len(pushed) > MAX_CHUNKS
                       THEN ArraySliceLast(pushed, MAX_CHUNKS) ELSE pushed,
      currentSeq   |-> cur + 1]

\* no trim after the push
addOutputChunkNoTrim(chunks, cur, data) ==
  LET chunk == [seq |-> cur, data |-> data]
  IN [chunk        |-> chunk,
      outputChunks |-> Append(chunks, chunk),
      currentSeq   |-> cur + 1]

\* addOutputChunk: the chunk, the ring after push and trim, the next seq
addOutputChunk(chunks, cur, data) ==
  LET chunk  == [seq |-> cur, data |-> data]
      pushed == Append(chunks, chunk)
  IN [chunk        |-> chunk,
      outputChunks |-> IF Len(pushed) > MAX_CHUNKS
                       THEN ArraySliceLast(pushed, MAX_CHUNKS) ELSE pushed,
      currentSeq   |-> cur + 1]

\* flushPendingData publishes a chunk iff the tab is registered and has data
Flushes(a, t, pend) == TabProcessOf(a, t) /\ pend # <<>>

\* flushPendingData(a, t) when the tab's pendingData is pend
flushPendingData(a, t, pend) ==
  LET r == addOutputChunk(outputChunks[t], currentSeq[t], pend) IN
  /\ flushTimers' = flushTimers \ {getControlKey(a, t)}
  /\ IF Flushes(a, t, pend)
     THEN /\ outputChunks' = [outputChunks EXCEPT ![t] = r.outputChunks]
          /\ currentSeq' = [currentSeq EXCEPT ![t] = r.currentSeq]
          /\ pendingData' = [pendingData EXCEPT ![t] = <<>>]
          /\ pub' = [pub EXCEPT ![t] = Append(@, r.chunk)]
     ELSE /\ pendingData' = [pendingData EXCEPT ![t] = pend]
          /\ UNCHANGED <<outputChunks, currentSeq, pub>>

\* variant: a flush that finds the timer armed emits no pty-data
FlushFramesUntimedOnly(d, a, t, pend) ==
  IF Flushes(a, t, pend) /\ Registered(d) /\ getControlKey(a, t) \notin flushTimers
  THEN WSHandlePtyData(conn[d], attachedAgentId[d], attachedTabId[d],
                       a, t, pend, currentSeq[t])
  ELSE <<>>

\* the frames the pty-data event of that flush makes the handler of d send
FlushFrames(d, a, t, pend) ==
  IF Flushes(a, t, pend) /\ Registered(d)
  THEN WSHandlePtyData(conn[d], attachedAgentId[d], attachedTabId[d],
                       a, t, pend, currentSeq[t])
  ELSE <<>>

\* variant: tabProcess.pendingData = data
AppendPendingOverwrite(pend, data) == data

\* tabProcess.pendingData += data
AppendPending(pend, data) == pend \o data

BytesDelivered == LET RECURSIVE Sum(_)
                      Sum(S) == IF S = {} THEN 0
                                ELSE LET x == CHOOSE y \in S : TRUE
                                     IN Len(written[x]) + Sum(S \ {x})
                  IN Sum(TabIds)

PtyRunning(p) == ptys[p].state \in {"live", "killed"}

\* ptyProcess.onData -> AgentManager.handlePtyData
PtyData(p, n, budget) ==
  LET a    == ptys[p].agentId
      t    == ptys[p].tabId
      data == [i \in 1..n |-> Len(written[t]) + i]
      pend == AppendPending(pendingData[t], data)
  IN
  /\ PtyRunning(p)
  /\ BytesDelivered + n <= budget
  /\ ptyIn' = {}
  /\ op' = IF TabProcessOf(a, t) THEN Op("pty-data", NoClient, a, t)
           ELSE Op("pty-data-dropped", NoClient, NoAgent, NoTab)
  /\ IF ~TabProcessOf(a, t)
     THEN /\ sent' = NoFrames
          /\ UNCHANGED <<bufVars, written, got>>
     ELSE /\ written' = [written EXCEPT ![t] = @ \o data]
          /\ IF Len(pend) >= MAX_CHUNK_SIZE
             THEN /\ flushPendingData(a, t, pend)
                  /\ sent' = [d \in ClientIds |-> FlushFrames(d, a, t, pend)]
                  /\ got' = GotAfter(sent')
             ELSE /\ pendingData' = [pendingData EXCEPT ![t] = pend]
                  /\ flushTimers' = flushTimers \cup {getControlKey(a, t)}
                  /\ sent' = NoFrames
                  /\ UNCHANGED <<outputChunks, currentSeq, pub, got>>
  /\ UNCHANGED <<regVars, persistVars, statusVars, ptyVars, clientVars,
                 controlOwners, origin, attachSeq>>

\* the 50 ms timer armed by handlePtyData fires
FlushTimerFire(a, t) ==
  /\ getControlKey(a, t) \in flushTimers
  /\ flushPendingData(a, t, pendingData[t])
  /\ sent' = [d \in ClientIds |-> FlushFrames(d, a, t, pendingData[t])]
  /\ got' = GotAfter(sent')
  /\ ptyIn' = {}
  /\ op' = Op("flush-timer", NoClient, a, t)
  /\ UNCHANGED <<regVars, persistVars, statusVars, ptyVars, clientVars,
                 controlOwners, written, origin, attachSeq>>

\* updatePersistedAgentBuffer
updatePersistedAgentBuffer(buffers, a, outputBuffer) ==
  IF a \in persistedAgents
  THEN [buffers EXCEPT ![a] = SliceLast(outputBuffer, PERSIST_LIMIT)]
  ELSE buffers

\* ptyProcess.onExit; agentProcess and tabProcess are the objects the
\* closure captured, whether or not they are still in the registry
PtyExit(p) ==
  LET a    == ptys[p].agentId
      t    == ptys[p].tabId
      pend == pendingData[t]
      isFirst == tabs[a] # <<>> /\ tabs[a][1] = t
  IN
  /\ PtyRunning(p)
  /\ flushPendingData(a, t, pend)
  /\ persistedBuffer' =
       IF isFirst
       THEN updatePersistedAgentBuffer(persistedBuffer, a,
              SliceLast(IF TabProcessOf(a, t) THEN HistoryOf(outputChunks'[t])
                        ELSE <<>>, PERSIST_LIMIT))
       ELSE persistedBuffer
  /\ tabPty' = [tabPty EXCEPT ![t] = NoPty]
  /\ tabStatus' = [tabStatus EXCEPT ![t] = "stopped"]
  /\ ptys' = [ptys EXCEPT ![p] = [state |-> "exited", agentId |-> NoAgent, tabId |-> NoTab]]
  /\ sent' = [d \in ClientIds |->
                FlushFrames(d, a, t, pend) \o
                (IF Registered(d)
                 THEN handleTabStatus(conn[d], attachedAgentId[d], a, t, "stopped")
                 ELSE <<>>)]
  /\ got' = GotAfter(sent')
  /\ ptyIn' = {}
  /\ op' = Op("pty-exit", NoClient, a, t)
  /\ UNCHANGED <<regVars, persistedAgents, agentStatus, clientVars,
                 controlOwners, written, origin, attachSeq>>

\* ------------------------------------------------------ control-owner lock
\* variant: the owner is set only when the key has none
tryGainControlIfFree(m, a, t, c) ==
  IF MapHas(m, getControlKey(a, t)) THEN m ELSE MapSet(m, getControlKey(a, t), c)

tryGainControl(m, a, t, c) == MapSet(m, getControlKey(a, t), c)

\* releaseControl changes the map, and emits control-changed, iff c owns it
Releases(m, a, t, c) == MapGet(m, getControlKey(a, t)) = c

\* variant: the entry is deleted whoever owns it
releaseControlAnyone(m, a, t, c) == MapDelete(m, getControlKey(a, t))

releaseControl(m, a, t, c) ==
  IF Releases(m, a, t, c) THEN MapDelete(m, getControlKey(a, t)) ELSE m

\* frames of a control-changed event, for the handler of d
ControlFrames(d, attA, attT, a, t, newOwnerId) ==
  IF Registered(d)
  THEN handleControlChanged(conn[d], d, attA[d], attT[d], a, t, newOwnerId)
  ELSE <<>>

\* ------------------------------------------------------------- tab session
FreshPty == CHOOSE p \in PtyIds :
              /\ ptys[p].state = "unborn"
              /\ \A q \in PtyIds : q < p => ptys[q].state # "unborn"
CanSpawn == \E p \in PtyIds : ptys[p].state = "unborn"

\* pty.kill(): the process is signalled; its callbacks still arrive later
Kill(ps, p) ==
  IF p # NoPty /\ ps[p].state = "live" THEN [ps EXCEPT ![p].state = "killed"] ELSE ps

\* startTab on a registered tab: idempotent when tabProcess.pty is set
\* variant: startTab spawns whether or not the tab has a PTY
SpawnsAlways(a, t) == TabProcessOf(a, t)

Spawns(a, t) == TabProcessOf(a, t) /\ tabPty[t] = NoPty

\* variant: the spawn leaves the tab's status as it was
startTabKeepsStatus(a, t) ==
  IF ~Spawns(a, t)
  THEN UNCHANGED <<tabPty, tabStatus, agentStatus, ptys>>
  ELSE /\ tabPty' = [tabPty EXCEPT ![t] = FreshPty]
       /\ agentStatus' = [agentStatus EXCEPT ![a] = "running"]
       /\ ptys' = [ptys EXCEPT ![FreshPty] =
                     [state |-> "live", agentId |-> a, tabId |-> t]]
       /\ UNCHANGED tabStatus

startTab(a, t) ==
  IF ~Spawns(a, t)
  THEN UNCHANGED <<tabPty, tabStatus, agentStatus, ptys>>
  ELSE /\ tabPty' = [tabPty EXCEPT ![t] = FreshPty]
       /\ tabStatus' = [tabStatus EXCEPT ![t] = "running"]
       /\ agentStatus' = [agentStatus EXCEPT ![a] = "running"]
       /\ ptys' = [ptys EXCEPT ![FreshPty] =
                     [state |-> "live", agentId |-> a, tabId |-> t]]

StartFrames(d, attA, a, t) ==
  IF Spawns(a, t) /\ Registered(d)
  THEN handleTabStatus(conn[d], attA[d], a, t, "running") \o
       handleAgentStatus(conn[d], a, "running")
  ELSE <<>>

\* stopTab does something only for a registered tab with a PTY
Stops(a, t) == TabProcessOf(a, t) /\ tabPty[t] # NoPty

\* ------------------------------------------------------ WSHandler: frames
\* tab ids a frame can carry: none, an id some tab has or had, a made-up id
KnownTabArgs == {NoTab} \cup {t \in TabIds : tabAgent[t] # NoAgent}
TabArgs == KnownTabArgs \cup {BogusTab}

\* tabId || agent.tabs?.[0]?.id
TargetTab(a, targ) ==
  IF targ # NoTab THEN targ
  ELSE IF tabs[a] # <<>> THEN tabs[a][1] ELSE NoTab

Only(c, frames) == [d \in ClientIds |-> IF d = c THEN frames ELSE <<>>]

Connect(c) ==
  /\ conn[c] = "none"
  /\ conn' = [conn EXCEPT ![c] = "open"]
  /\ sent' = NoFrames
  /\ ptyIn' = {}
  /\ op' = Op("connect", c, NoAgent, NoTab)
  /\ UNCHANGED <<regVars, persistVars, statusVars, ptyVars, bufVars,
                 attachedAgentId, attachedTabId, controlOwners, written,
                 origin, attachSeq, got>>

\* ws 'close' -> cleanup(); the socket is already CLOSED, so the handler of
\* c, still registered while releaseControl emits, sends nothing
WsClose(c) ==
  LET a0  == attachedAgentId[c]
      t0  == attachedTabId[c]
      was == a0 # NoAgent /\ t0 # NoTab
      cn1 == [conn EXCEPT ![c] = "closed"]
  IN
  /\ conn[c] = "open"
  /\ conn' = cn1
  /\ controlOwners' = IF was THEN releaseControl(controlOwners, a0, t0, c)
                      ELSE controlOwners
  /\ sent' = [d \in ClientIds |->
                IF was /\ Releases(controlOwners, a0, t0, c) /\ Registered(d)
                THEN handleControlChanged(cn1[d], d, attachedAgentId[d],
                                          attachedTabId[d], a0, t0, NoClient)
                ELSE <<>>]
  /\ attachedAgentId' = [attachedAgentId EXCEPT ![c] = NoAgent]
  /\ attachedTabId' = [attachedTabId EXCEPT ![c] = NoTab]
  /\ attachSeq' = [attachSeq EXCEPT ![c] = -1]
  /\ got' = [got EXCEPT ![c] = <<>>]
  /\ ptyIn' = {}
  /\ op' = Op("close", c, a0, t0)
  /\ UNCHANGED <<regVars, persistVars, statusVars, ptyVars, bufVars, written,
                 origin>>

\* JSON.parse throws: the catch of the message listener answers
WsBadFrame(c) ==
  /\ conn[c] = "open"
  /\ sent' = Only(c, WSsend(conn[c], <<ErrorFrame>>))
  /\ ptyIn' = {}
  /\ op' = Op("bad-frame", c, NoAgent, NoTab)
  /\ UNCHANGED <<regVars, persistVars, statusVars, ptyVars, bufVars,
                 clientVars, controlOwners, written, origin, attachSeq, got>>

\* detachFromAgent
WsDetach(c) ==
  LET a0  == attachedAgentId[c]
      t0  == attachedTabId[c]
      was == a0 # NoAgent /\ t0 # NoTab
  IN
  /\ conn[c] = "open"
  /\ op' = Op("detach", c, a0, t0)
  /\ ptyIn' = {}
  /\ IF ~was
     THEN /\ sent' = NoFrames
          /\ UNCHANGED <<attachedAgentId, attachedTabId, controlOwners,
                         attachSeq, got>>
     ELSE /\ controlOwners' = releaseControl(controlOwners, a0, t0, c)
          /\ attachedAgentId' = [attachedAgentId EXCEPT ![c] = NoAgent]
          /\ attachedTabId' = [attachedTabId EXCEPT ![c] = NoTab]
          /\ sent' = [d \in ClientIds |->
                (IF Releases(controlOwners, a0, t0, c)
                 THEN ControlFrames(d, attachedAgentId, attachedTabId, a0, t0, NoClient)
                 ELSE <<>>) \o
                (IF d = c
                 THEN WSsend(conn[c], <<Frame("detached", NoAgent, NoTab, FALSE, <<>>, -1)>>)
                 ELSE <<>>)]
          /\ attachSeq' = [attachSeq EXCEPT ![c] = -1]
          /\ got' = [got EXCEPT ![c] = <<>>]
  /\ UNCHANGED <<regVars, persistVars, statusVars, ptyVars, bufVars, conn,
                 written, origin>>

\* gainControl
WsGainControl(c) ==
  LET a0  == attachedAgentId[c]
      t0  == attachedTabId[c]
      was == a0 # NoAgent /\ t0 # NoTab
  IN
  /\ conn[c] = "open"
  /\ op' = Op("gain-control", c, a0, t0)
  /\ ptyIn' = {}
  /\ IF ~was
     THEN /\ sent' = NoFrames
          /\ UNCHANGED controlOwners
     ELSE /\ controlOwners' = tryGainControl(controlOwners, a0, t0, c)
          /\ sent' = [d \in ClientIds |->
                ControlFrames(d, attachedAgentId, attachedTabId, a0, t0, c)]
  /\ UNCHANGED <<regVars, persistVars, statusVars, ptyVars, bufVars,
                 clientVars, written, origin, attachSeq, got>>

\* variant: no hasControl check before the PTY is touched
InputCallsUnchecked(c, targ, kind) ==
  LET a0     == attachedAgentId[c]
      target == IF targ # NoTab THEN targ ELSE attachedTabId[c]
  IN IF a0 = NoAgent \/ target = NoTab THEN {}
     ELSE IF getPty(a0, target) = NoPty THEN {}
     ELSE {[kind |-> kind, pty |-> getPty(a0, target)]}

\* the PTY calls handleInput / handleResize make: none unless c has control
\* of the targeted tab and the tab has a PTY
InputCalls(c, targ, kind) ==
  LET a0     == attachedAgentId[c]
      target == IF targ # NoTab THEN targ ELSE attachedTabId[c]
  IN IF a0 = NoAgent \/ target = NoTab THEN {}
     ELSE IF ~hasControl(a0, target, c) THEN {}
     ELSE IF getPty(a0, target) = NoPty THEN {}
     ELSE {[kind |-> kind, pty |-> getPty(a0, target)]}

\* handleInput
WsInput(c, targ) ==
  /\ conn[c] = "open"
  /\ ptyIn' = InputCalls(c, targ, "write")
  /\ sent' = NoFrames
  /\ op' = Op("input", c, attachedAgentId[c],
              IF targ # NoTab THEN targ ELSE attachedTabId[c])
  /\ UNCHANGED <<regVars, persistVars, statusVars, ptyVars, bufVars,
                 clientVars, controlOwners, written, origin, attachSeq, got>>

\* handleResize
WsResize(c, targ) ==
  /\ conn[c] = "open"
  /\ ptyIn' = InputCalls(c, targ, "resize")
  /\ sent' = NoFrames
  /\ op' = Op("resize", c, attachedAgentId[c],
              IF targ # NoTab THEN targ ELSE attachedTabId[c])
  /\ UNCHANGED <<regVars, persistVars, statusVars, ptyVars, bufVars,
                 clientVars, controlOwners, written, origin, attachSeq, got>>

\* variant: attachToAgent always claims control
AttachGainsAlways(m, a, t) == TRUE

\* attachToAgent claims control iff getControlOwner finds no owner
AttachGains(m, a, t) == MapGet(m, getControlKey(a, t)) = NoClient

\* attachToAgent(agentId, tabId?)
WsAttach(c, a, targ) ==
  LET a0      == attachedAgentId[c]
      t0      == attachedTabId[c]
      was     == a0 # NoAgent /\ t0 # NoTab
      rel     == was /\ Releases(controlOwners, a0, t0, c)
      owners1 == IF was THEN releaseControl(controlOwners, a0, t0, c)
                 ELSE controlOwners
      relFrames(d) == IF rel
                      THEN ControlFrames(d, attachedAgentId, attachedTabId, a0, t0, NoClient)
                      ELSE <<>>
      target  == TargetTab(a, targ)
      attA1   == [attachedAgentId EXCEPT ![c] = a]
      attT1   == [attachedTabId EXCEPT ![c] = target]
      throws  == getPty(a, target) = NoPty /\ ~TabProcessOf(a, target)
      gains   == AttachGains(owners1, a, target)
      history == getOutputHistory(a, target)
  IN
  /\ conn[c] = "open"
  /\ ptyIn' = {}
  /\ IF a \notin agents \/ target = NoTab
     THEN \* error reply after the release; the attachment is kept
          /\ op' = Op("attach-error", c, NoAgent, NoTab)
          /\ controlOwners' = owners1
          /\ sent' = [d \in ClientIds |->
                        relFrames(d) \o
                        (IF d = c THEN WSsend(conn[c], <<ErrorFrame>>) ELSE <<>>)]
          /\ UNCHANGED <<attachedAgentId, attachedTabId, attachSeq, got,
                         tabPty, tabStatus, agentStatus, ptys>>
     ELSE IF throws
     THEN \* startTab throws "Tab not found" into the message listener's catch
          /\ op' = Op("attach-error", c, a, target)
          /\ controlOwners' = owners1
          /\ attachedAgentId' = attA1
          /\ attachedTabId' = attT1
          /\ attachSeq' = [attachSeq EXCEPT ![c] = getLastSeq(a, target)]
          /\ got' = [got EXCEPT ![c] = <<>>]
          /\ sent' = [d \in ClientIds |->
                        relFrames(d) \o
                        (IF d = c THEN WSsend(conn[c], <<ErrorFrame>>) ELSE <<>>)]
          /\ UNCHANGED <<tabPty, tabStatus, agentStatus, ptys>>
     ELSE /\ Spawns(a, target) => CanSpawn
          /\ op' = Op("attach", c, a, target)
          /\ attachedAgentId' = attA1
          /\ attachedTabId' = attT1
          /\ startTab(a, target)
          /\ controlOwners' = IF gains THEN tryGainControl(owners1, a, target, c)
                              ELSE owners1
          /\ attachSeq' = [attachSeq EXCEPT ![c] = getLastSeq(a, target)]
          /\ got' = [got EXCEPT ![c] = <<>>]
          /\ sent' = [d \in ClientIds |->
                relFrames(d) \o
                StartFrames(d, attA1, a, target) \o
                (IF gains THEN ControlFrames(d, attA1, attT1, a, target, c) ELSE <<>>) \o
                (IF d = c
                 THEN WSsend(conn[c],
                        <<Frame("attached", a, target, gains, <<>>, -1)>> \o
                        (IF history # <<>>
                         THEN <<Frame("output", a, target, FALSE, history, -1)>>
                         ELSE <<>>))
                 ELSE <<>>)]
  /\ UNCHANGED <<regVars, persistVars, bufVars, conn, written, origin>>

\* WSHandler.startTab(agentId, tabId?)
WsStart(c, a, targ) ==
  LET target == TargetTab(a, targ) IN
  /\ conn[c] = "open"
  /\ ptyIn' = {}
  /\ IF a \notin agents \/ target = NoTab \/ ~TabProcessOf(a, target)
     THEN /\ op' = Op("start-error", c, NoAgent, NoTab)
          /\ sent' = Only(c, WSsend(conn[c], <<ErrorFrame>>))
          /\ UNCHANGED <<tabPty, tabStatus, agentStatus, ptys>>
     ELSE /\ Spawns(a, target) => CanSpawn
          /\ op' = Op("start", c, a, target)
          /\ startTab(a, target)
          /\ sent' = [d \in ClientIds |-> StartFrames(d, attachedAgentId, a, target)]
  /\ UNCHANGED <<regVars, persistVars, bufVars, clientVars, controlOwners,
                 written, origin, attachSeq, got>>

\* WSHandler.stopTab(agentId, tabId?) -> AgentManager.stopTab
WsStop(c, a, targ) ==
  LET target == IF a \in agents THEN TargetTab(a, targ) ELSE NoTab
      pend   == pendingData[target]
      anyRunning == \E t2 \in Range(tabs[a]) : t2 # target /\ tabStatus[t2] = "running"
  IN
  /\ conn[c] = "open"
  /\ ptyIn' = {}
  /\ IF target = NoTab \/ ~Stops(a, target)
     THEN /\ op' = Op("stop-noop", c, NoAgent, NoTab)
          /\ sent' = NoFrames
          /\ UNCHANGED <<bufVars, tabPty, tabStatus, agentStatus, ptys, got>>
     ELSE /\ op' = Op("stop", c, a, target)
          /\ flushPendingData(a, target, pend)
          /\ ptys' = Kill(ptys, tabPty[target])
          /\ tabPty' = [tabPty EXCEPT ![target] = NoPty]
          /\ tabStatus' = [tabStatus EXCEPT ![target] = "stopped"]
          /\ agentStatus' = IF anyRunning THEN agentStatus
                            ELSE [agentStatus EXCEPT ![a] = "stopped"]
          /\ sent' = [d \in ClientIds |->
                FlushFrames(d, a, target, pend) \o
                (IF Registered(d)
                 THEN handleTabStatus(conn[d], attachedAgentId[d], a, target, "stopped") \o
                      (IF anyRunning THEN <<>>
                       ELSE handleAgentStatus(conn[d], a, "stopped"))
                 ELSE <<>>)]
          /\ got' = GotAfter(sent')
  /\ UNCHANGED <<regVars, persistVars, clientVars, controlOwners, written,
                 origin, attachSeq>>

FreshTab == TabOrder[CHOOSE i \in 1..Len(TabOrder) :
              /\ tabAgent[TabOrder[i]] = NoAgent
              /\ \A j \in 1..(i - 1) : tabAgent[TabOrder[j]] # NoAgent]
HasFreshTab == \E i \in 1..tabSupply : tabAgent[TabOrder[i]] = NoAgent

\* WSHandler.createTab -> AgentManager.createTab; named: the frame has a name
WsCreateTab(c, a, named) ==
  /\ conn[c] = "open"
  /\ ptyIn' = {}
  /\ IF a \notin agents
     THEN /\ op' = Op("create-tab-error", c, NoAgent, NoTab)
          /\ sent' = Only(c, WSsend(conn[c], <<ErrorFrame>>))
          /\ UNCHANGED <<tabs, tabAgent, tabName, origin>>
     ELSE /\ HasFreshTab
          /\ op' = Op("create-tab", c, a, FreshTab)
          /\ tabs' = [tabs EXCEPT ![a] = Append(@, FreshTab)]
          /\ tabAgent' = [tabAgent EXCEPT ![FreshTab] = a]
          /\ tabName' = [tabName EXCEPT ![FreshTab] =
                           IF named THEN -1 ELSE Len(tabs[a]) + 1]
          /\ origin' = [origin EXCEPT ![FreshTab] = "created"]
          /\ sent' = [d \in ClientIds |->
                IF Registered(d)
                THEN handleTabCreated(conn[d], attachedAgentId[d], a, FreshTab) \o
                     handleAgentsUpdated(conn[d])
                ELSE <<>>]
  /\ UNCHANGED <<agents, creating, deleting, allocated, persistVars,
                 statusVars, ptyVars, bufVars, clientVars, controlOwners,
                 written, attachSeq, got>>

\* WSHandler.closeTab -> AgentManager.closeTab
WsCloseTab(c, a, t) ==
  LET key == getControlKey(a, t)
      hit(d) == Registered(d) /\ attachedAgentId[d] = a /\ attachedTabId[d] = t
  IN
  /\ conn[c] = "open"
  /\ ptyIn' = {}
  /\ IF ~TabProcessOf(a, t)
     THEN /\ op' = Op("close-tab-error", c, NoAgent, NoTab)
          /\ sent' = Only(c, WSsend(conn[c], <<ErrorFrame>>))
          /\ UNCHANGED <<tabs, flushTimers, ptys, controlOwners,
                         attachedTabId, attachSeq, got>>
     ELSE /\ op' = Op("close-tab", c, a, t)
          /\ flushTimers' = flushTimers \ {key}
          /\ ptys' = Kill(ptys, tabPty[t])
          /\ controlOwners' = MapDelete(controlOwners, key)
          /\ tabs' = [tabs EXCEPT ![a] = Remove(@, t)]
          /\ attachedTabId' = [d \in ClientIds |->
                IF Registered(d)
                THEN TabClosedAttT(attachedAgentId[d], attachedTabId[d], a, t)
                ELSE attachedTabId[d]]
          /\ attachSeq' = [d \in ClientIds |-> IF hit(d) THEN -1 ELSE attachSeq[d]]
          /\ got' = [d \in ClientIds |-> IF hit(d) THEN <<>> ELSE got[d]]
          /\ sent' = [d \in ClientIds |->
                IF Registered(d)
                THEN handleTabClosed(conn[d], attachedAgentId[d], a, t) \o
                     handleAgentsUpdated(conn[d])
                ELSE <<>>]
  /\ UNCHANGED <<agents, tabAgent, tabName, creating, deleting, allocated,
                 persistVars, statusVars, tabPty, outputChunks, currentSeq,
                 pendingData, pub, conn, attachedAgentId, written, origin>>

\* ------------------------------------------------------------------- HTTP
FreshAgent == AgentOrder[CHOOSE i \in 1..Len(AgentOrder) :
                /\ AgentOrder[i] \notin allocated
                /\ \A j \in 1..(i - 1) : AgentOrder[j] \in allocated]

\* POST /api/agents: createAgent up to the await of createWorktree
CreateAgentBegin ==
  /\ \E a \in AgentIds : a \notin allocated
  /\ allocated' = allocated \cup {FreshAgent}
  /\ creating' = creating \cup {FreshAgent}
  /\ sent' = NoFrames
  /\ ptyIn' = {}
  /\ op' = Op("create-agent-begin", NoClient, FreshAgent, NoTab)
  /\ UNCHANGED <<agents, tabs, tabAgent, tabName, deleting, persistVars,
                 statusVars, ptyVars, bufVars, clientVars, controlOwners,
                 written, origin, attachSeq, got>>

\* createWorktree rejects: createAgent throws, the route answers 500
CreateAgentFail(a) ==
  /\ a \in creating
  /\ creating' = creating \ {a}
  /\ sent' = NoFrames
  /\ ptyIn' = {}
  /\ op' = Op("create-agent-fail", NoClient, a, NoTab)
  /\ UNCHANGED <<agents, tabs, tabAgent, tabName, deleting, allocated,
                 persistVars, statusVars, ptyVars, bufVars, clientVars,
                 controlOwners, written, origin, attachSeq, got>>

\* createWorktree resolves: the rest of createAgent
CreateAgentFinish(a) ==
  /\ a \in creating
  /\ HasFreshTab
  /\ creating' = creating \ {a}
  /\ agents' = agents \cup {a}
  /\ tabs' = [tabs EXCEPT ![a] = <<FreshTab>>]
  /\ tabAgent' = [tabAgent EXCEPT ![FreshTab] = a]
  /\ tabName' = [tabName EXCEPT ![FreshTab] = 0]
  /\ origin' = [origin EXCEPT ![FreshTab] = "created"]
  /\ persistedAgents' = persistedAgents \cup {a}
  /\ persistedBuffer' = [persistedBuffer EXCEPT ![a] = <<>>]
  /\ sent' = [d \in ClientIds |->
                IF Registered(d) THEN handleAgentsUpdated(conn[d]) ELSE <<>>]
  /\ ptyIn' = {}
  /\ op' = Op("create-agent", NoClient, a, FreshTab)
  /\ UNCHANGED <<deleting, allocated, statusVars, ptyVars, bufVars,
                 clientVars, controlOwners, written, attachSeq, got>>

RECURSIVE KillAll(_, _)
KillAll(ps, ts) ==
  IF ts = <<>> THEN ps ELSE KillAll(Kill(ps, tabPty[Head(ts)]), Tail(ts))

\* DELETE /api/agents/:id: deleteAgent up to the await of removeWorktree
DeleteAgentBegin(a) ==
  LET keys == {getControlKey(a, t) : t \in Range(tabs[a])} IN
  /\ a \in agents
  /\ a \notin deleting
  /\ flushTimers' = flushTimers \ keys
  /\ ptys' = KillAll(ptys, tabs[a])
  /\ controlOwners' = {e \in controlOwners : e.key \notin keys}
  /\ deleting' = deleting \cup {a}
  /\ sent' = NoFrames
  /\ ptyIn' = {}
  /\ op' = Op("delete-agent-begin", NoClient, a, NoTab)
  /\ UNCHANGED <<agents, tabs, tabAgent, tabName, creating, allocated,
                 persistVars, statusVars, tabPty, outputChunks, currentSeq,
                 pendingData, pub, clientVars, written, origin, attachSeq, got>>

\* variant: the deleted agent stays in the persisted list
DeleteAgentFinishKeepsEntry(a) ==
  /\ a \in deleting
  /\ deleting' = deleting \ {a}
  /\ agents' = agents \ {a}
  /\ sent' = [d \in ClientIds |->
                IF Registered(d) THEN handleAgentsUpdated(conn[d]) ELSE <<>>]
  /\ ptyIn' = {}
  /\ op' = Op("delete-agent", NoClient, a, NoTab)
  /\ UNCHANGED <<tabs, tabAgent, tabName, creating, allocated, statusVars,
                 ptyVars, bufVars, clientVars, controlOwners, written, origin,
                 attachSeq, got, persistVars>>

\* removeWorktree resolves (it swallows its failures): the rest of deleteAgent
DeleteAgentFinish(a) ==
  /\ a \in deleting
  /\ deleting' = deleting \ {a}
  /\ agents' = agents \ {a}
  /\ persistedAgents' = persistedAgents \ {a}
  /\ persistedBuffer' = [persistedBuffer EXCEPT ![a] = <<>>]
  /\ sent' = [d \in ClientIds |->
                IF Registered(d) THEN handleAgentsUpdated(conn[d]) ELSE <<>>]
  /\ ptyIn' = {}
  /\ op' = Op("delete-agent", NoClient, a, NoTab)
  /\ UNCHANGED <<tabs, tabAgent, tabName, creating, allocated, statusVars,
                 ptyVars, bufVars, clientVars, controlOwners, written, origin,
                 attachSeq, got>>

\* ------------------------------------------------------------ HTTP routes
\* the routes that take an agent id
AgentRoutes == {"get-agent", "delete-agent", "status", "diff", "pr", "merge"}

\* a step of the server that answers no HTTP request and sends no frame
HttpQuiet ==
  /\ sent' = NoFrames
  /\ ptyIn' = {}
  /\ UNCHANGED <<regVars, persistVars, statusVars, ptyVars, bufVars,
                 clientVars, controlOwners, written, origin, attachSeq, got>>

\* variant: every outcome of POST /api/agents is answered 201
PostAgentsStatusCreated(outcome) == 201

\* app.post('/api/agents'): the status for each way the handler ends
PostAgentsStatus(outcome) ==
  CASE outcome = "missing" -> 400
    [] outcome = "failed"  -> 500
    [] OTHER               -> 201

\* POST /api/agents without name or sourceRepo
PostAgentsMissing ==
  /\ httpReply' = HttpReply("post-agents", PostAgentsStatus("missing"))
  /\ op' = Op("post-agents-missing", NoClient, NoAgent, NoTab)
  /\ HttpQuiet

\* POST /api/agents {name, sourceRepo} up to the await in createAgent
PostAgentsBegin ==
  /\ CreateAgentBegin
  /\ httpReply' = NoReply

\* createWorktree rejected: the catch of the route
PostAgentsFail(a) ==
  /\ CreateAgentFail(a)
  /\ httpReply' = HttpReply("post-agents", PostAgentsStatus("failed"))

\* createAgent resolved: addRecentRepo, res.status(201)
PostAgentsCreated(a) ==
  /\ CreateAgentFinish(a)
  /\ httpReply' = HttpReply("post-agents", PostAgentsStatus("created"))

\* the status a route answers with when the agent id is not in the
\* registry: GET /api/agents/:id checks getAgent itself, the other routes
\* let the "Agent not found" error of the AgentManager reach their catch
UnknownAgentStatus(route) == IF route = "get-agent" THEN 404 ELSE 500

\* a request on one of the agent routes naming an id absent from the registry
HttpUnknownAgent(route, a) ==
  /\ a \notin agents
  /\ httpReply' = HttpReply(route, UnknownAgentStatus(route))
  /\ op' = Op("http-unknown-agent", NoClient, a, NoTab)
  /\ HttpQuiet

\* GET /api/agents/:id for an agent in the registry
HttpGetAgent(a) ==
  /\ a \in agents
  /\ httpReply' = HttpReply("get-agent", 200)
  /\ op' = Op("http-get-agent", NoClient, a, NoTab)
  /\ HttpQuiet

\* DELETE /api/agents/:id for an agent in the registry, up to the await
HttpDeleteBegin(a) ==
  /\ DeleteAgentBegin(a)
  /\ httpReply' = NoReply

\* removeWorktree settled: the rest of deleteAgent, res.status(204)
HttpDeleteFinish(a) ==
  /\ DeleteAgentFinish(a)
  /\ httpReply' = HttpReply("delete-agent", 204)

\* ------------------------------------------------------------- local merge
\* GitWorktreeManager.tryLocalMerge, one action per awaited git command of
\* the source repository; a command succeeds or fails as the action's
\* argument says, within what git allows in the repository's state.

\* git checkout "b"
Checkout(r, b) == [r EXCEPT !.head = HeadOn(b, r.tips)]

\* git refuses to switch branches while the index holds unmerged entries
CanCheckout(r) == ~r.merging

MergeStep(a) ==
  /\ sent' = NoFrames
  /\ ptyIn' = {}
  /\ op' = Op("merge", NoClient, a, NoTab)
  /\ UNCHANGED <<serverVars, worktree, pick>>

\* variant: master is tried before main
PickTargetBranchMasterFirst(override, originHead, locals) ==
  IF override # "" THEN override
  ELSE IF originHead # "" THEN originHead
  ELSE IF "master" \in locals THEN "master"
  ELSE IF "main" \in locals THEN "main"
  ELSE ""

\* the targetBranch tryLocalMerge settles on ("" when it throws): override
\* is the caller's argument ("" when absent), originHead what
\* `git symbolic-ref refs/remotes/origin/HEAD` names ("" when it fails),
\* locals the branches `git show-ref --verify` finds
PickTargetBranch(override, originHead, locals) ==
  IF override # "" THEN override
  ELSE IF originHead # "" THEN originHead
  ELSE IF "main" \in locals THEN "main"
  ELSE IF "master" \in locals THEN "master"
  ELSE ""

\* the agent changes files in its worktree
WorktreeEdit ==
  /\ ~worktree.dirty
  /\ worktree' = [worktree EXCEPT !.dirty = TRUE]
  /\ sent' = NoFrames
  /\ ptyIn' = {}
  /\ op' = Op("worktree-edit", NoClient, NoAgent, NoTab)
  /\ UNCHANGED <<serverVars, repo, merge, pick>>

\* tryLocalMerge from the target detection to the auto-commit: it throws
\* when no target is found, else commits what `git status --porcelain`
\* lists, a failure of the commit being ignored
MergeDetect(a, override, originHead, locals, commitOk) ==
  LET target == PickTargetBranch(override, originHead, locals) IN
  /\ merge.pc \in {"idle", "done"}
  /\ a \in agents
  /\ pick' = [override |-> override, originHead |-> originHead,
              locals |-> locals, target |-> target]
  /\ worktree' = IF target # "" /\ worktree.dirty /\ commitOk
                      /\ worktree.commits < MaxCommits
                 THEN [dirty |-> FALSE, commits |-> worktree.commits + 1]
                 ELSE worktree
  /\ sent' = NoFrames
  /\ ptyIn' = {}
  /\ op' = Op("merge-detect", NoClient, a, NoTab)
  /\ UNCHANGED <<serverVars, repo, merge>>

\* somebody switches the source repository to a branch or detaches HEAD
\* while no merge call is in flight
UserCheckout(b, detach) ==
  /\ merge.pc \in {"idle", "done"}
  /\ CanCheckout(repo)
  /\ repo' = [repo EXCEPT !.head = IF detach THEN Detached(b, repo.tips)
                                   ELSE HeadOn(b, repo.tips)]
  /\ merge' = NoCall
  /\ sent' = NoFrames
  /\ ptyIn' = {}
  /\ op' = Op("user-checkout", NoClient, NoAgent, NoTab)
  /\ UNCHANGED <<serverVars, worktree, pick>>

\* POST /api/agents/:id/merge up to `git branch --show-current`:
\* originalBranch = stdout.trim(), empty when HEAD is detached
MergeBegin(a, target, ok) ==
  /\ merge.pc \in {"idle", "done"}
  /\ a \in agents
  /\ repo.tips[target] < MaxMerges
  /\ merge' = [pc |-> IF ok THEN "checkout" ELSE "done",
               agentId |-> a, targetBranch |-> target,
               originalBranch |-> IF ok THEN repo.head.branch ELSE "",
               preHead |-> repo.head, preTip |-> repo.tips[target],
               inTry |-> FALSE,
               result |-> IF ok THEN "none" ELSE "threw"]
  /\ UNCHANGED repo
  /\ MergeStep(a)

\* git checkout "${targetBranch}"
MergeCheckout(ok) ==
  /\ merge.pc = "checkout"
  /\ ok => CanCheckout(repo)
  /\ repo' = IF ok THEN Checkout(repo, merge.targetBranch) ELSE repo
  /\ merge' = [merge EXCEPT !.pc = IF ok THEN "merge" ELSE "catch",
                            !.inTry = TRUE]
  /\ MergeStep(merge.agentId)

\* git merge "${branch}" --no-edit: a merge commit on the target, a conflict
\* that leaves the merge in progress, or a failure before the merge started
MergeMerge(outcome) ==
  /\ merge.pc = "merge"
  /\ repo' = IF outcome = "merged"
             THEN LET tips1 == [repo.tips EXCEPT ![merge.targetBranch] = @ + 1]
                  IN [repo EXCEPT !.tips = tips1,
                                  !.head = HeadOn(merge.targetBranch, tips1)]
             ELSE IF outcome = "conflict" THEN [repo EXCEPT !.merging = TRUE]
             ELSE repo
  /\ merge' = IF outcome = "merged"
              THEN [merge EXCEPT !.pc = "done", !.result = "success"]
              ELSE [merge EXCEPT !.pc = "list"]
  /\ MergeStep(merge.agentId)

\* git diff --name-only --diff-filter=U
MergeListConflicts(ok) ==
  /\ merge.pc = "list"
  /\ merge' = [merge EXCEPT !.pc = IF ok THEN "abort" ELSE "catch"]
  /\ UNCHANGED repo
  /\ MergeStep(merge.agentId)

\* git merge --abort, which fails when there is no merge to abort; with no
\* original branch recorded the failure result is returned at once
MergeAbort(ok) ==
  /\ merge.pc = "abort"
  /\ ok => repo.merging
  /\ repo' = IF ok THEN [repo EXCEPT !.merging = FALSE] ELSE repo
  /\ merge' = IF ~ok THEN [merge EXCEPT !.pc = "catch"]
              ELSE IF merge.originalBranch = ""
              THEN [merge EXCEPT !.pc = "done", !.result = "conflicts"]
              ELSE [merge EXCEPT !.pc = "restore"]
  /\ MergeStep(merge.agentId)

\* if (originalBranch) git checkout "${originalBranch}"; return success false
MergeRestore(ok) ==
  /\ merge.pc = "restore"
  /\ ok => CanCheckout(repo)
  /\ repo' = IF ok THEN Checkout(repo, merge.originalBranch) ELSE repo
  /\ merge' = IF ok THEN [merge EXCEPT !.pc = "done", !.result = "conflicts"]
              ELSE [merge EXCEPT !.pc = "catch"]
  /\ MergeStep(merge.agentId)

\* catch (error): checkout of the original branch if one was recorded, its
\* failure ignored; throw error
MergeCatch(ok) ==
  /\ merge.pc = "catch"
  /\ ok => (CanCheckout(repo) /\ merge.originalBranch # "")
  /\ repo' = IF ok THEN Checkout(repo, merge.originalBranch) ELSE repo
  /\ merge' = [merge EXCEPT !.pc = "done", !.result = "threw"]
  /\ MergeStep(merge.agentId)

\* --------------------------------------------------------- viewer's view
\* the hasControl of the last attached or control-changed frame among fs,
\* prev when there is none
RECURSIVE LastHasControl(_, _)
LastHasControl(fs, prev) ==
  IF fs = <<>> THEN prev
  ELSE LastHasControl(Tail(fs),
         IF Head(fs).type \in {"attached", "control-changed"}
         THEN (IF Head(fs).hasControl THEN "yes" ELSE "no")
         ELSE prev)

\* what the frames of a step leave each client believing about its control
Told ==
  toldControl' = [d \in ClientIds |-> LastHasControl(sent'[d], toldControl[d])]

\* ------------------------------------------------------------------- time
\* variant: every write that leaves data pending restarts the timer
AtNowRestartsTimer ==
  /\ now' = now
  /\ timerDue' = [k \in AgentIds \X TabIds |->
                    IF k \notin flushTimers' THEN -1
                    ELSE IF k \in flushTimers /\ written'[k[2]] = written[k[2]]
                    THEN timerDue[k]
                    ELSE now + FLUSH_DEBOUNCE]
  /\ writeLog' = [t \in TabIds |->
                    IF Len(written'[t]) > Len(written[t])
                    THEN Append(writeLog[t],
                           [at |-> now, from |-> Len(written[t]) + 1,
                            to |-> Len(written'[t]),
                            due |-> timerDue'[<<tabAgent[t], t>>]])
                    ELSE writeLog[t]]
  /\ pubAt' = [t \in TabIds |->
                 pubAt[t] \o [i \in 1..(Len(pub'[t]) - Len(pub[t])) |-> now]]

\* What a handler that runs at instant `now` does to the timers and to the
\* records: a key that enters flushTimers was given setTimeout(...,
\* FLUSH_DEBOUNCE), a key that stays keeps its timer, a key that leaves had
\* clearTimeout; the bytes received and the chunks published are stamped.
AtNow ==
  /\ now' = now
  /\ timerDue' = [k \in AgentIds \X TabIds |->
                    IF k \notin flushTimers' THEN -1
                    ELSE IF k \in flushTimers THEN timerDue[k]
                    ELSE now + FLUSH_DEBOUNCE]
  /\ writeLog' = [t \in TabIds |->
                    IF Len(written'[t]) > Len(written[t])
                    THEN Append(writeLog[t],
                           [at |-> now, from |-> Len(written[t]) + 1,
                            to |-> Len(written'[t]),
                            due |-> timerDue'[<<tabAgent[t], t>>]])
                    ELSE writeLog[t]]
  /\ pubAt' = [t \in TabIds |->
                 pubAt[t] \o [i \in 1..(Len(pub'[t]) - Len(pub[t])) |-> now]]

\* variant: the timer callback can run before its delay has passed
TimerDueAnyTime(a, t) == TRUE

\* setTimeout callbacks run when their delay has passed
TimerDue(a, t) == timerDue[getControlKey(a, t)] = now

\* time passes, but not beyond the instant a pending timer fires at
Tick ==
  /\ now < MaxTime
  /\ \A k \in flushTimers : timerDue[k] > now
  /\ now' = now + 1
  /\ sent' = NoFrames
  /\ ptyIn' = {}
  /\ op' = Op("tick", NoClient, NoAgent, NoTab)
  /\ UNCHANGED <<regVars, persistVars, statusVars, ptyVars, bufVars,
                 clientVars, controlOwners, written, origin, attachSeq, got,
                 uiVars, gitVars, timerDue, writeLog, pubAt, httpReply, tabSupply, toldControl>>

\* ---------------------------------------------------------------- shutdown
\* what shutdown() leaves in the file for agent a: the last PERSIST_LIMIT
\* characters of the chunks its first tab retains, unless that is empty
ShutdownBuffer(buffers, a) ==
  IF tabs[a] = <<>> THEN buffers[a]
  ELSE LET persistBuffer == SliceLast(getOutputHistory(a, tabs[a][1]), PERSIST_LIMIT)
       IN IF persistBuffer # <<>>
          THEN updatePersistedAgentBuffer(buffers, a, persistBuffer)[a]
          ELSE buffers[a]

\* AgentManager.shutdown(), called on SIGTERM / SIGINT
Shutdown ==
  LET open(t) == \E a \in agents : t \in Range(tabs[a]) IN
  /\ op.name # "shutdown"
  /\ flushTimers' = {}
  /\ persistedBuffer' = [a \in AgentIds |->
                           IF a \in agents THEN ShutdownBuffer(persistedBuffer, a)
                           ELSE persistedBuffer[a]]
  /\ ptys' = [p \in PtyIds |->
                IF \E t \in TabIds : open(t) /\ tabPty[t] = p
                THEN Kill(ptys, p)[p] ELSE ptys[p]]
  /\ tabPty' = [t \in TabIds |-> IF open(t) THEN NoPty ELSE tabPty[t]]
  /\ sent' = NoFrames
  /\ ptyIn' = {}
  /\ op' = Op("shutdown", NoClient, NoAgent, NoTab)
  /\ UNCHANGED <<regVars, persistedAgents, statusVars, outputChunks,
                 currentSeq, pendingData, pub, clientVars, controlOwners,
                 written, origin, attachSeq, got>>

\* ----------------------------------------------------------- browser (App)
\* getSeqKey / getLastSeq / updateLastSeq / resetLastSeq over lastSeqMap
getSeqKey(a, t) == <<a, t>>

AppGetLastSeq(ls, a, t) == ls[getSeqKey(a, t)]

updateLastSeq(ls, a, t, seq) ==
  IF seq > ls[getSeqKey(a, t)] THEN [ls EXCEPT ![getSeqKey(a, t)] = seq] ELSE ls

resetLastSeq(ls, a, t) == [ls EXCEPT ![getSeqKey(a, t)] = -1]

\* a panel takes the frames of tabId
PanelShows(pn, i, tabId) == pn[i].agentId # NoAgent /\ pn[i].tabId = tabId

TermWrite(a, t, seq) == [agentId |-> a, tabId |-> t, seq |-> seq]

\* one iteration of the for loop of handleOutput; st = [ls, tw]
handleOutputPanel(st, pn, i, tabId, seq) ==
  IF PanelShows(pn, i, tabId)
  THEN [ls |-> updateLastSeq(st.ls, pn[i].agentId, tabId, seq),
        tw |-> [st.tw EXCEPT ![i] = Append(@, TermWrite(pn[i].agentId, tabId, seq))]]
  ELSE st

\* App.handleOutput(data, tabId, seq)
handleOutput(st, pn, tabId, seq) ==
  handleOutputPanel(handleOutputPanel(st, pn, 1, tabId, seq), pn, 2, tabId, seq)

\* one iteration of the for loop of handleOutputSync
handleOutputSyncPanel(st, pn, i, chunks, tabId, lastSeq) ==
  IF PanelShows(pn, i, tabId)
  THEN LET a == pn[i].agentId
           currentLastSeq == AppGetLastSeq(st.ls, a, tabId)
           isFullSync == chunks[1].seq = 0 /\ currentLastSeq = -1
           applied == IF isFullSync THEN chunks
                      ELSE SelectSeq(chunks, LAMBDA c : c.seq > currentLastSeq)
           cleared == IF isFullSync THEN <<>> ELSE st.tw[i]
       IN [ls |-> updateLastSeq(st.ls, a, tabId, lastSeq),
           tw |-> [st.tw EXCEPT ![i] =
                     cleared \o
                     [k \in 1..Len(applied) |-> TermWrite(a, tabId, applied[k].seq)]]]
  ELSE st

\* App.handleOutputSync(chunks, tabId, lastSeq)
handleOutputSync(st, pn, chunks, tabId, lastSeq) ==
  IF chunks = <<>> THEN st
  ELSE handleOutputSyncPanel(handleOutputSyncPanel(st, pn, 1, chunks, tabId, lastSeq),
                             pn, 2, chunks, tabId, lastSeq)

\* the message handler of the socket hook, over the frames of one step
RECURSIVE ApplyFrames(_, _, _)
ApplyFrames(st, pn, fs) ==
  IF fs = <<>> THEN st
  ELSE LET f == Head(fs)
           st1 == IF f.type = "output" THEN handleOutput(st, pn, f.tabId, f.seq)
                  ELSE IF f.type = "output-sync"
                  THEN handleOutputSync(st, pn, f.data, f.tabId, f.seq)
                  ELSE st
       IN ApplyFrames(st1, pn, Tail(fs))

\* the browser handles the frames the server sent it in this step
BrowserReceives(pn, ls, tw) ==
  LET r == ApplyFrames([ls |-> ls, tw |-> tw], pn, sent'[Viewer]) IN
  /\ lastSeqMap' = r.ls
  /\ termWrites' = r.tw

\* a server event reaches the browser; the browser's panels stay as they are
ServerEvent ==
  /\ BrowserReceives(panels, lastSeqMap, termWrites)
  /\ UNCHANGED <<panels, activePanel>>

\* attach {agentId, tabId, fromSeq} as the sequenced handler answers it:
\* release, attach, start, claim control when free, attached, output-sync
AttachSync(c, a, t, fromSeq) ==
  LET a0      == attachedAgentId[c]
      t0      == attachedTabId[c]
      was     == a0 # NoAgent /\ t0 # NoTab
      rel     == was /\ Releases(controlOwners, a0, t0, c)
      owners1 == IF was THEN releaseControl(controlOwners, a0, t0, c)
                 ELSE controlOwners
      attA1   == [attachedAgentId EXCEPT ![c] = a]
      attT1   == [attachedTabId EXCEPT ![c] = t]
      gains   == AttachGains(owners1, a, t)
      snap    == getOutputChunks(a, t, fromSeq)
  IN
  /\ conn[c] = "open"
  /\ TabProcessOf(a, t)
  /\ Spawns(a, t) => CanSpawn
  /\ ptyIn' = {}
  /\ op' = Op("attach-sync", c, a, t)
  /\ attachedAgentId' = attA1
  /\ attachedTabId' = attT1
  /\ startTab(a, t)
  /\ controlOwners' = IF gains THEN tryGainControl(owners1, a, t, c) ELSE owners1
  /\ attachSeq' = [attachSeq EXCEPT ![c] = getLastSeq(a, t)]
  /\ got' = [got EXCEPT ![c] = <<>>]
  /\ sent' = [d \in ClientIds |->
        (IF rel THEN ControlFrames(d, attachedAgentId, attachedTabId, a0, t0, NoClient)
         ELSE <<>>) \o
        StartFrames(d, attA1, a, t) \o
        (IF gains THEN ControlFrames(d, attA1, attT1, a, t, c) ELSE <<>>) \o
        (IF d = c
         THEN WSsend(conn[c],
                <<Frame("attached", a, t, gains, <<>>, snap.lastSeq),
                  Frame("output-sync", a, t, FALSE, snap.chunks, snap.lastSeq)>>)
         ELSE <<>>)]
  /\ UNCHANGED <<regVars, persistVars, bufVars, conn, written, origin>>

\* attach(agentId, tabId, fromSeq > 0 ? fromSeq : undefined) and its answer
AppAttach(pn, ls, tw, a, t) ==
  /\ AttachSync(Viewer, a, t, AppGetLastSeq(ls, a, t) + 1)
  /\ BrowserReceives(pn, ls, tw)

\* no frame leaves the browser
AppNoAttach ==
  /\ conn[Viewer] = "open"
  /\ sent' = NoFrames
  /\ ptyIn' = {}
  /\ UNCHANGED <<regVars, persistVars, statusVars, ptyVars, bufVars,
                 clientVars, controlOwners, written, origin, attachSeq, got,
                 lastSeqMap, termWrites>>

\* App.handleSelectAgent(agentId) from the sidebar: targetPanel = activePanel
handleSelectAgent(a) ==
  LET firstTabId == IF tabs[a] # <<>> THEN tabs[a][1] ELSE NoTab
      pn == [panels EXCEPT ![activePanel] = [agentId |-> a, tabId |-> firstTabId]]
  IN
  /\ a \in agents
  /\ panels' = pn
  /\ UNCHANGED activePanel
  /\ IF firstTabId # NoTab
     THEN AppAttach(pn, lastSeqMap, termWrites, a, firstTabId)
     ELSE AppNoAttach /\ op' = Op("select-agent", Viewer, a, NoTab)

\* TabBar.onSelectTab of panel i: setActivePanel(i); handleSelectTab(tabId, i)
handleSelectTab(t, i) ==
  LET a  == panels[i].agentId
      pn == [panels EXCEPT ![i].tabId = t]
  IN
  /\ a # NoAgent
  /\ a \in agents /\ t \in Range(tabs[a])
  /\ activePanel' = i
  /\ panels' = pn
  /\ AppAttach(pn, lastSeqMap, termWrites, a, t)

\* App.handlePanelClick(i)
handlePanelClick(i) ==
  LET panel      == panels[i]
      otherPanel == panels[activePanel]
      isSameTab  == otherPanel.agentId = panel.agentId /\ otherPanel.tabId = panel.tabId
  IN
  /\ activePanel # i
  /\ activePanel' = i
  /\ UNCHANGED panels
  /\ IF panel.agentId # NoAgent /\ panel.tabId # NoTab /\ ~isSameTab
     THEN AppAttach(panels, lastSeqMap, termWrites, panel.agentId, panel.tabId)
     ELSE AppNoAttach /\ op' = Op("panel-click", Viewer, NoAgent, NoTab)

\* App.handleReload(i): clear, resetLastSeq, attach(agentId, tabId, 0)
handleReload(i) ==
  LET panel == panels[i] IN
  /\ panel.agentId # NoAgent /\ panel.tabId # NoTab
  /\ UNCHANGED <<panels, activePanel>>
  /\ AttachSync(Viewer, panel.agentId, panel.tabId, 0)
  /\ BrowserReceives(panels, resetLastSeq(lastSeqMap, panel.agentId, panel.tabId),
                     [termWrites EXCEPT ![i] = <<>>])

\* ------------------------------------------------------------ specification
\* Buffer scenario: one viewer drives the lifecycle of one agent at a time
\* (restored from the file, or created once the registry is empty) while its
\* PTYs write, exit and are stopped, restarted, closed and deleted.

Next ==
  \/ Connect(Viewer) /\ UNCHANGED <<uiVars, gitVars, timeVars, httpReply, tabSupply, toldControl>>
  \/ WsClose(Viewer) /\ UNCHANGED <<uiVars, gitVars, timeVars, httpReply, tabSupply, toldControl>>
  \/ \E a \in AgentIds, t \in KnownTabArgs : WsAttach(Viewer, a, t) /\ UNCHANGED <<uiVars, gitVars, timeVars, httpReply, tabSupply, toldControl>>
  \/ WsDetach(Viewer) /\ UNCHANGED <<uiVars, gitVars, timeVars, httpReply, tabSupply, toldControl>>
  \/ \E a \in AgentIds, t \in KnownTabArgs : WsStart(Viewer, a, t) /\ UNCHANGED <<uiVars, gitVars, timeVars, httpReply, tabSupply, toldControl>>
  \/ \E a \in AgentIds, t \in KnownTabArgs : WsStop(Viewer, a, t) /\ UNCHANGED <<uiVars, gitVars, timeVars, httpReply, tabSupply, toldControl>>
  \/ \E a \in AgentIds, t \in KnownTabArgs : WsCloseTab(Viewer, a, t) /\ UNCHANGED <<uiVars, gitVars, timeVars, httpReply, tabSupply, toldControl>>
  \/ (allocated = {} /\ CreateAgentBegin) /\ UNCHANGED <<uiVars, gitVars, timeVars, httpReply, tabSupply, toldControl>>
  \/ \E a \in AgentIds : CreateAgentFail(a) /\ UNCHANGED <<uiVars, gitVars, timeVars, httpReply, tabSupply, toldControl>>
  \/ \E a \in AgentIds : CreateAgentFinish(a) /\ UNCHANGED <<uiVars, gitVars, timeVars, httpReply, tabSupply, toldControl>>
  \/ \E a \in AgentIds : DeleteAgentBegin(a) /\ UNCHANGED <<uiVars, gitVars, timeVars, httpReply, tabSupply, toldControl>>
  \/ \E a \in AgentIds : DeleteAgentFinish(a) /\ UNCHANGED <<uiVars, gitVars, timeVars, httpReply, tabSupply, toldControl>>
  \/ \E p \in PtyIds, n \in 1..MaxWrite : PtyData(p, n, BufferBytes) /\ UNCHANGED <<uiVars, gitVars, timeVars, httpReply, tabSupply, toldControl>>
  \/ \E p \in PtyIds : PtyExit(p) /\ UNCHANGED <<uiVars, gitVars, timeVars, httpReply, tabSupply, toldControl>>
  \/ \E a \in AgentIds, t \in TabIds : FlushTimerFire(a, t) /\ UNCHANGED <<uiVars, gitVars, timeVars, httpReply, tabSupply, toldControl>>

Spec == Init /\ [][Next]_vars

\* Fan-out scenario: one viewer moves between the tabs of the restored
\* agent, creating and closing tabs and naming tabs that do not exist,
\* while the PTYs of all tabs keep writing.
NextFanout ==
  \/ Connect(Viewer) /\ UNCHANGED <<uiVars, gitVars, timeVars, httpReply, tabSupply, toldControl>>
  \/ WsClose(Viewer) /\ UNCHANGED <<uiVars, gitVars, timeVars, httpReply, tabSupply, toldControl>>
  \/ \E a \in AgentIds, t \in TabArgs : WsAttach(Viewer, a, t) /\ UNCHANGED <<uiVars, gitVars, timeVars, httpReply, tabSupply, toldControl>>
  \/ WsDetach(Viewer) /\ UNCHANGED <<uiVars, gitVars, timeVars, httpReply, tabSupply, toldControl>>
  \/ \E a \in AgentIds : WsCreateTab(Viewer, a, FALSE) /\ UNCHANGED <<uiVars, gitVars, timeVars, httpReply, tabSupply, toldControl>>
  \/ \E a \in AgentIds, t \in KnownTabArgs : WsCloseTab(Viewer, a, t) /\ UNCHANGED <<uiVars, gitVars, timeVars, httpReply, tabSupply, toldControl>>
  \/ \E p \in PtyIds, n \in 1..MaxWrite : PtyData(p, n, FanoutBytes) /\ UNCHANGED <<uiVars, gitVars, timeVars, httpReply, tabSupply, toldControl>>
  \/ \E p \in PtyIds : PtyExit(p) /\ UNCHANGED <<uiVars, gitVars, timeVars, httpReply, tabSupply, toldControl>>
  \/ \E a \in AgentIds, t \in TabIds : FlushTimerFire(a, t) /\ UNCHANGED <<uiVars, gitVars, timeVars, httpReply, tabSupply, toldControl>>

SpecFanout == Init /\ [][NextFanout]_vars

\* Control scenario: two viewers attach (which starts the tab), detach, take
\* control, type, resize and close tabs, naming tabs that do not exist; the
\* PTYs exit but stay silent.
NextControl ==
  \/ \E c \in ClientIds : Connect(c) /\ UNCHANGED <<uiVars, gitVars, timeVars, httpReply, tabSupply, toldControl>>
  \/ \E c \in ClientIds : WsClose(c) /\ UNCHANGED <<uiVars, gitVars, timeVars, httpReply, tabSupply, toldControl>>
  \/ \E c \in ClientIds : WsBadFrame(c) /\ UNCHANGED <<uiVars, gitVars, timeVars, httpReply, tabSupply, toldControl>>
  \/ \E c \in ClientIds, a \in AgentIds, t \in TabArgs : WsAttach(c, a, t) /\ UNCHANGED <<uiVars, gitVars, timeVars, httpReply, tabSupply, toldControl>>
  \/ \E c \in ClientIds : WsDetach(c) /\ UNCHANGED <<uiVars, gitVars, timeVars, httpReply, tabSupply, toldControl>>
  \/ \E c \in ClientIds : WsGainControl(c) /\ UNCHANGED <<uiVars, gitVars, timeVars, httpReply, tabSupply, toldControl>>
  \/ \E c \in ClientIds, t \in TabArgs : WsInput(c, t) /\ UNCHANGED <<uiVars, gitVars, timeVars, httpReply, tabSupply, toldControl>>
  \/ \E c \in ClientIds, t \in TabArgs : WsResize(c, t) /\ UNCHANGED <<uiVars, gitVars, timeVars, httpReply, tabSupply, toldControl>>
  \/ \E c \in ClientIds, a \in AgentIds, t \in KnownTabArgs : WsCloseTab(c, a, t) /\ UNCHANGED <<uiVars, gitVars, timeVars, httpReply, tabSupply, toldControl>>
  \/ \E p \in PtyIds : PtyExit(p) /\ UNCHANGED <<uiVars, gitVars, timeVars, httpReply, tabSupply, toldControl>>

SpecControl == Init /\ [][NextControl]_vars

\* Browser scenario: the Viewer's App with its two panels side by side picks
\* agents, tabs and panels and reloads, every attach answered at once, while
\* the PTY of the restored agent writes.
NextClient ==
  \/ Connect(Viewer) /\ UNCHANGED <<uiVars, gitVars, timeVars, httpReply, tabSupply, toldControl>>
  \/ \E a \in AgentIds : handleSelectAgent(a) /\ UNCHANGED <<gitVars, timeVars, httpReply, tabSupply, toldControl>>
  \/ \E t \in TabIds, i \in PanelIds : handleSelectTab(t, i) /\ UNCHANGED <<gitVars, timeVars, httpReply, tabSupply, toldControl>>
  \/ \E i \in PanelIds : handlePanelClick(i) /\ UNCHANGED <<gitVars, timeVars, httpReply, tabSupply, toldControl>>
  \/ \E i \in PanelIds : handleReload(i) /\ UNCHANGED <<gitVars, timeVars, httpReply, tabSupply, toldControl>>
  \/ \E a \in AgentIds : WsCreateTab(Viewer, a, FALSE) /\ UNCHANGED <<uiVars, gitVars, timeVars, httpReply, tabSupply, toldControl>>
  \/ \E p \in PtyIds, n \in 1..MaxWrite : PtyData(p, n, ClientBytes) /\ ServerEvent /\ UNCHANGED <<gitVars, timeVars, httpReply, tabSupply, toldControl>>
  \/ \E a \in AgentIds, t \in TabIds : FlushTimerFire(a, t) /\ ServerEvent /\ UNCHANGED <<gitVars, timeVars, httpReply, tabSupply, toldControl>>

SpecClient == Init /\ [][NextClient]_vars

\* Shutdown scenario: the PTY of the restored agent's tab writes while a
\* viewer is attached, a second tab is opened and the first one closed,
\* until the process is told to stop; nothing runs after shutdown().
NextShutdown ==
  \/ op.name # "shutdown" /\ Connect(Viewer) /\ UNCHANGED <<uiVars, gitVars, timeVars, httpReply, tabSupply, toldControl>>
  \/ op.name # "shutdown" /\ \E a \in AgentIds : WsAttach(Viewer, a, NoTab) /\ UNCHANGED <<uiVars, gitVars, timeVars, httpReply, tabSupply, toldControl>>
  \/ op.name # "shutdown" /\ \E a \in AgentIds : WsCreateTab(Viewer, a, FALSE) /\ UNCHANGED <<uiVars, gitVars, timeVars, httpReply, tabSupply, toldControl>>
  \/ op.name # "shutdown" /\ \E a \in AgentIds, t \in KnownTabArgs : WsCloseTab(Viewer, a, t) /\ UNCHANGED <<uiVars, gitVars, timeVars, httpReply, tabSupply, toldControl>>
  \/ op.name # "shutdown" /\ \E p \in PtyIds, n \in 1..MaxWrite : PtyData(p, n, ShutdownBytes) /\ UNCHANGED <<uiVars, gitVars, timeVars, httpReply, tabSupply, toldControl>>
  \/ op.name # "shutdown" /\ \E a \in AgentIds, t \in TabIds : FlushTimerFire(a, t) /\ UNCHANGED <<uiVars, gitVars, timeVars, httpReply, tabSupply, toldControl>>
  \/ op.name # "shutdown" /\ \E p \in PtyIds : PtyExit(p) /\ UNCHANGED <<uiVars, gitVars, timeVars, httpReply, tabSupply, toldControl>>
  \/ Shutdown /\ UNCHANGED <<uiVars, gitVars, timeVars, httpReply, tabSupply, toldControl>>

SpecShutdown == Init /\ [][NextShutdown]_vars

\* Merge scenario: merges of the restored agent's branch are requested one
\* after the other, into either branch of the source repository, whose
\* HEAD somebody moves between the calls; every git command can fail.
NextMerge ==
  \/ \E b \in Branches, detach \in BOOLEAN : UserCheckout(b, detach)
  \/ \E a \in AgentIds, b \in Branches, ok \in BOOLEAN : MergeBegin(a, b, ok)
  \/ \E ok \in BOOLEAN : MergeCheckout(ok)
  \/ \E outcome \in {"merged", "conflict", "error"} : MergeMerge(outcome)
  \/ \E ok \in BOOLEAN : MergeListConflicts(ok)
  \/ \E ok \in BOOLEAN : MergeAbort(ok)
  \/ \E ok \in BOOLEAN : MergeRestore(ok)
  \/ \E ok \in BOOLEAN : MergeCatch(ok)

SpecMerge == Init /\ [][NextMerge]_vars

\* Timed scenario: the tab of the restored agent is started by an attach
\* and its PTY writes while the clock ticks and the flush timer fires when
\* it is due.
NextTimed ==
  \/ Connect(Viewer) /\ AtNow /\ UNCHANGED <<uiVars, gitVars, httpReply, tabSupply, toldControl>>
  \/ \E a \in AgentIds : WsAttach(Viewer, a, NoTab) /\ AtNow /\ UNCHANGED <<uiVars, gitVars, httpReply, tabSupply, toldControl>>
  \/ \E p \in PtyIds, n \in 1..MaxWrite : PtyData(p, n, TimedBytes) /\ AtNow /\ UNCHANGED <<uiVars, gitVars, httpReply, tabSupply, toldControl>>
  \/ \E a \in AgentIds, t \in TabIds : TimerDue(a, t) /\ FlushTimerFire(a, t) /\ AtNow /\ UNCHANGED <<uiVars, gitVars, httpReply, tabSupply, toldControl>>
  \/ Tick

SpecTimed == Init /\ [][NextTimed]_vars

\* HTTP scenario: agents are created, looked up and deleted over HTTP, by
\* ids that are in the registry and ids that are not, while a viewer is
\* connected and attaches.
NextHttp ==
  \/ Connect(Viewer) /\ UNCHANGED <<uiVars, gitVars, timeVars, httpReply, tabSupply, toldControl>>
  \/ \E a \in AgentIds : WsAttach(Viewer, a, NoTab) /\ UNCHANGED <<uiVars, gitVars, timeVars, httpReply, tabSupply, toldControl>>
  \/ PostAgentsMissing /\ UNCHANGED <<uiVars, gitVars, timeVars, tabSupply, toldControl>>
  \/ PostAgentsBegin /\ UNCHANGED <<uiVars, gitVars, timeVars, tabSupply, toldControl>>
  \/ \E a \in AgentIds : PostAgentsFail(a) /\ UNCHANGED <<uiVars, gitVars, timeVars, tabSupply, toldControl>>
  \/ \E a \in AgentIds : PostAgentsCreated(a) /\ UNCHANGED <<uiVars, gitVars, timeVars, tabSupply, toldControl>>
  \/ \E r \in AgentRoutes, a \in AgentIds : HttpUnknownAgent(r, a) /\ UNCHANGED <<uiVars, gitVars, timeVars, tabSupply, toldControl>>
  \/ \E a \in AgentIds : HttpGetAgent(a) /\ UNCHANGED <<uiVars, gitVars, timeVars, tabSupply, toldControl>>
  \/ \E a \in AgentIds : HttpDeleteBegin(a) /\ UNCHANGED <<uiVars, gitVars, timeVars, tabSupply, toldControl>>
  \/ \E a \in AgentIds : HttpDeleteFinish(a) /\ UNCHANGED <<uiVars, gitVars, timeVars, tabSupply, toldControl>>

SpecHttp == Init /\ [][NextHttp]_vars

\* tab-naming scenario: a viewer creates tabs, named and unnamed, and
\* closes them, with tab ids enough for a tab created after a close
NextTabs ==
  \/ Connect(Viewer) /\ UNCHANGED <<uiVars, gitVars, timeVars, httpReply, tabSupply, toldControl>>
  \/ \E a \in AgentIds, named \in BOOLEAN :
       WsCreateTab(Viewer, a, named) /\ UNCHANGED <<uiVars, gitVars, timeVars, httpReply, tabSupply, toldControl>>
  \/ \E a \in AgentIds, t \in TabIds :
       WsCloseTab(Viewer, a, t) /\ UNCHANGED <<uiVars, gitVars, timeVars, httpReply, tabSupply, toldControl>>

SpecTabs == InitTabs /\ [][NextTabs]_vars

\* Close scenario: two viewers attach to the tabs of an agent, one of them
\* creates and closes tabs, both type, and the PTYs keep writing after
\* their tab was closed.
NextClose ==
  \/ \E c \in ClientIds : Connect(c) /\ UNCHANGED <<uiVars, gitVars, timeVars, httpReply, tabSupply, toldControl>>
  \/ \E c \in ClientIds, a \in AgentIds, t \in KnownTabArgs :
       WsAttach(c, a, t) /\ UNCHANGED <<uiVars, gitVars, timeVars, httpReply, tabSupply, toldControl>>
  \/ \E a \in AgentIds : WsCreateTab(Viewer, a, FALSE) /\ UNCHANGED <<uiVars, gitVars, timeVars, httpReply, tabSupply, toldControl>>
  \/ \E a \in AgentIds, t \in KnownTabArgs :
       WsCloseTab(Viewer, a, t) /\ UNCHANGED <<uiVars, gitVars, timeVars, httpReply, tabSupply, toldControl>>
  \/ \E c \in ClientIds, t \in KnownTabArgs :
       WsInput(c, t) /\ UNCHANGED <<uiVars, gitVars, timeVars, httpReply, tabSupply, toldControl>>
  \/ \E p \in PtyIds, n \in 1..MaxWrite :
       PtyData(p, n, CloseBytes) /\ UNCHANGED <<uiVars, gitVars, timeVars, httpReply, tabSupply, toldControl>>
  \/ \E a \in AgentIds, t \in TabIds :
       FlushTimerFire(a, t) /\ UNCHANGED <<uiVars, gitVars, timeVars, httpReply, tabSupply, toldControl>>

SpecClose == Init /\ [][NextClose]_vars

\* Target scenario: the agent edits its worktree and merges are requested
\* with and without a target, in repositories with and without origin/HEAD,
\* main and master; somebody moves HEAD of the source repository meanwhile.
NextTarget ==
  \/ WorktreeEdit
  \/ \E b \in Branches, detach \in BOOLEAN : UserCheckout(b, detach)
  \/ \E a \in AgentIds, override \in TargetNames \cup {""},
        originHead \in TargetNames \cup {""},
        locals \in SUBSET {"main", "master"}, commitOk \in BOOLEAN :
       MergeDetect(a, override, originHead, locals, commitOk)

SpecTarget == Init /\ [][NextTarget]_vars

\* Session scenario: two viewers connect, attach, detach, take control,
\* type, close tabs and disconnect, naming tabs that do not exist, while
\* agents are deleted; what each viewer is told about its control is kept.
NextSession ==
  \/ \E c \in ClientIds : Connect(c) /\ Told /\ UNCHANGED <<uiVars, gitVars, timeVars, httpReply, tabSupply>>
  \/ \E c \in ClientIds : WsClose(c) /\ Told /\ UNCHANGED <<uiVars, gitVars, timeVars, httpReply, tabSupply>>
  \/ \E c \in ClientIds, a \in AgentIds, t \in TabArgs :
       WsAttach(c, a, t) /\ Told /\ UNCHANGED <<uiVars, gitVars, timeVars, httpReply, tabSupply>>
  \/ \E c \in ClientIds : WsDetach(c) /\ Told /\ UNCHANGED <<uiVars, gitVars, timeVars, httpReply, tabSupply>>
  \/ \E c \in ClientIds : WsGainControl(c) /\ Told /\ UNCHANGED <<uiVars, gitVars, timeVars, httpReply, tabSupply>>
  \/ \E c \in ClientIds, t \in TabArgs :
       WsInput(c, t) /\ Told /\ UNCHANGED <<uiVars, gitVars, timeVars, httpReply, tabSupply>>
  \/ \E c \in ClientIds, a \in AgentIds, t \in KnownTabArgs :
       WsCloseTab(c, a, t) /\ Told /\ UNCHANGED <<uiVars, gitVars, timeVars, httpReply, tabSupply>>
  \/ \E a \in AgentIds : DeleteAgentBegin(a) /\ Told /\ UNCHANGED <<uiVars, gitVars, timeVars, httpReply, tabSupply>>
  \/ \E a \in AgentIds : DeleteAgentFinish(a) /\ Told /\ UNCHANGED <<uiVars, gitVars, timeVars, httpReply, tabSupply>>

SpecSession == Init /\ [][NextSession]_vars

\* ------------------------------------------------------------- properties
AttachedFrame(a, t, flag) == Frame("attached", a, t, flag, <<>>, -1)
ControlChangedFrame(flag) == Frame("control-changed", NoAgent, NoTab, flag, <<>>, -1)

\* seqs handed out to a tab so far: the seed chunk's and the published ones
SeqsAssigned(t) ==
  {pub[t][i].seq : i \in 1..Len(pub[t])} \cup
  (IF origin[t] = "seeded" THEN {0} ELSE {})

HighestAssigned(t) ==
  IF SeqsAssigned(t) = {} THEN -1
  ELSE CHOOSE m \in SeqsAssigned(t) : \A x \in SeqsAssigned(t) : x <= m

SeqArgs == -1..(BufferBytes + 1)

\* C1: per tab, the seqs of the chunks are strictly increasing in the order
\* the chunks were published, and the retained chunk list never holds two
\* chunks with the same seq.
C1_SeqStrictlyIncreasing ==
  \A t \in TabIds :
    /\ \A i, j \in 1..Len(pub[t]) : i < j => pub[t][i].seq < pub[t][j].seq
    /\ \A i, j \in 1..Len(outputChunks[t]) :
         i # j => outputChunks[t][i].seq # outputChunks[t][j].seq

C1_Witness ==
  \E t \in TabIds : Len(pub[t]) >= 3 /\ Len(outputChunks[t]) = MAX_CHUNKS

\* C2: the first chunk published on a freshly created tab has seq 0 and every
\* later chunk of that tab has the seq of the one before it plus one, also
\* when the tab was stopped and started again in between.
C2_DenseSeqAssignment ==
  \A t \in TabIds :
    origin[t] = "created" =>
      \A i \in 1..Len(pub[t]) : pub[t][i].seq = i - 1

C2_Witness ==
  \E t \in TabIds :
    /\ origin[t] = "created"
    /\ Len(pub[t]) >= 2
    /\ tabPty[t] = 2
    /\ ptys[1] = [state |-> "killed", agentId |-> tabAgent[t], tabId |-> t]
    /\ op = Op("flush-timer", NoClient, tabAgent[t], t)

\* C3: every tab retains at most MAX_CHUNKS chunks, and whenever a tab retains
\* a chunk its buffer statistics satisfy lastSeq - firstSeq + 1 = chunkCount:
\* the retained chunks are the newest, with no gap.
C3_TrimPolicy ==
  /\ \A t \in TabIds : Len(outputChunks[t]) <= MAX_CHUNKS
  /\ \A a \in AgentIds, t \in TabIds :
       LET st == getBufferStats(a, t) IN
       /\ st.chunkCount <= MAX_CHUNKS
       /\ st.chunkCount > 0 => st.lastSeq - st.firstSeq + 1 = st.chunkCount

C3_Witness ==
  \E a \in AgentIds, t \in TabIds :
    /\ getBufferStats(a, t).chunkCount = MAX_CHUNKS
    /\ getBufferStats(a, t).firstSeq = 1
    /\ getBufferStats(a, t).lastSeq = MAX_CHUNKS

\* C4: for every tab in the registry, the data of the chunks published after
\* the seed, concatenated in seq order and followed by the pending data, is
\* the concatenation of everything the tab's PTYs wrote, in arrival order.
C4_PtyByteOrder ==
  \A a \in AgentIds, t \in TabIds :
    TabProcessOf(a, t) => HistoryOf(pub[t]) \o pendingData[t] = written[t]

C4_Witness ==
  \E a \in AgentIds, t \in TabIds :
    /\ TabProcessOf(a, t)
    /\ origin[t] = "seeded"
    /\ Len(pub[t]) >= 1
    /\ pendingData[t] # <<>>

\* C5: getOutputChunks(agent, tab, fromSeq) returns exactly the retained
\* chunks with seq >= fromSeq, in ascending seq order, and as lastSeq the
\* highest seq assigned to the tab; lastSeq is -1 and the list is empty when
\* no seq was assigned or the tab does not exist.
C5_GetOutputChunks ==
  \A a \in AgentIds, t \in TabIds \cup {BogusTab}, f \in SeqArgs :
    LET r == getOutputChunks(a, t, f) IN
    IF a \in agents /\ t \in Range(tabs[a])
    THEN /\ Range(r.chunks) = {c \in Range(outputChunks[t]) : c.seq >= f}
         /\ \A i \in 1..(Len(r.chunks) - 1) : r.chunks[i].seq < r.chunks[i + 1].seq
         /\ r.lastSeq = HighestAssigned(t)
         /\ HighestAssigned(t) = -1 => r.chunks = <<>>
    ELSE r = [chunks |-> <<>>, lastSeq |-> -1]

C5_Witness ==
  \E a \in AgentIds, t \in TabIds :
    /\ a \in agents /\ t \in Range(tabs[a])
    /\ outputChunks[t] # <<>> /\ outputChunks[t][1].seq > 0
    /\ Len(getOutputChunks(a, t, HighestAssigned(t)).chunks) = 1
    /\ Len(getOutputChunks(a, t, HighestAssigned(t) - 1).chunks) = 2
    /\ getOutputChunks(a, t, HighestAssigned(t) + 1).chunks = <<>>

\* C6: a (agent, tab) pair has at most one control owner, and an input or
\* resize frame from a subscriber that does not own the targeted tab makes
\* no PTY write or resize and draws no error frame.
C6_ControlExclusivity ==
  /\ \A e1, e2 \in controlOwners : e1.key = e2.key => e1 = e2
  /\ (op.name \in {"input", "resize"} /\
      ~hasControl(op.agentId, op.tabId, op.client))
       => /\ ptyIn = {}
          /\ \A i \in 1..Len(sent[op.client]) : sent[op.client][i].type # "error"

C6_Witness ==
  /\ op.name = "input"
  /\ attachedAgentId[op.client] = op.agentId
  /\ attachedTabId[op.client] = op.tabId
  /\ getPty(op.agentId, op.tabId) # NoPty
  /\ getControlOwner(op.agentId, op.tabId) \notin {NoClient, op.client}
  /\ ptyIn = {}

\* C7: once a gain-control frame from an attached subscriber S is processed,
\* the owner lookup of S's tab returns S, S was sent control-changed with
\* hasControl true, and the previous owner, if there was another one and it
\* is attached to the tab, was sent control-changed with hasControl false.
C7_GainControlPreempts ==
  [][(op'.name = "gain-control" /\ op'.agentId # NoAgent /\ op'.tabId # NoTab) =>
       LET S    == op'.client
           key  == getControlKey(op'.agentId, op'.tabId)
           prev == MapGet(controlOwners, key)
       IN /\ MapGet(controlOwners', key) = S
          /\ ControlChangedFrame(TRUE) \in Range(sent'[S])
          /\ ErrorFrame \notin Range(sent'[S])
          /\ (prev \notin {NoClient, S} /\ attachedAgentId[prev] = op'.agentId
                /\ attachedTabId[prev] = op'.tabId)
               => ControlChangedFrame(FALSE) \in Range(sent'[prev])]_vars

C7_Witness ==
  /\ op.name = "gain-control"
  /\ getControlOwner(op.agentId, op.tabId) = op.client
  /\ ControlChangedFrame(TRUE) \in Range(sent[op.client])
  /\ \E d \in ClientIds \ {op.client} :
       /\ attachedAgentId[d] = op.agentId /\ attachedTabId[d] = op.tabId
       /\ ControlChangedFrame(FALSE) \in Range(sent[d])

\* C8 as stated: after a successful attach, the attaching subscriber owns the
\* tab and is told hasControl true if the tab had no owner; if the tab had
\* an owner, the owner is unchanged and the subscriber is told hasControl
\* false.
C8_AsStated ==
  [][op'.name = "attach" =>
       LET c    == op'.client
           key  == getControlKey(op'.agentId, op'.tabId)
           prev == MapGet(controlOwners, key)
       IN IF prev = NoClient
          THEN /\ MapGet(controlOwners', key) = c
               /\ AttachedFrame(op'.agentId, op'.tabId, TRUE) \in Range(sent'[c])
          ELSE /\ MapGet(controlOwners', key) = prev
               /\ AttachedFrame(op'.agentId, op'.tabId, FALSE) \in Range(sent'[c])]_vars

\* C8: after a successful attach, the attaching subscriber owns the tab and
\* is told hasControl true if the tab had no owner other than the subscriber
\* itself; if another subscriber owned the tab, the owner is unchanged and
\* the attaching subscriber is told hasControl false.
C8_AttachControl ==
  [][op'.name = "attach" =>
       LET c    == op'.client
           key  == getControlKey(op'.agentId, op'.tabId)
           prev == MapGet(controlOwners, key)
       IN IF prev \in {NoClient, c}
          THEN /\ MapGet(controlOwners', key) = c
               /\ AttachedFrame(op'.agentId, op'.tabId, TRUE) \in Range(sent'[c])
               /\ AttachedFrame(op'.agentId, op'.tabId, FALSE) \notin Range(sent'[c])
          ELSE /\ MapGet(controlOwners', key) = prev
               /\ AttachedFrame(op'.agentId, op'.tabId, FALSE) \in Range(sent'[c])
               /\ AttachedFrame(op'.agentId, op'.tabId, TRUE) \notin Range(sent'[c])]_vars

C8_Witness ==
  /\ op.name = "attach"
  /\ getControlOwner(op.agentId, op.tabId) \notin {NoClient, op.client}
  /\ AttachedFrame(op.agentId, op.tabId, FALSE) \in Range(sent[op.client])

\* C9: every output frame sent to a subscriber is of the (agent, tab) the
\* subscriber is attached to; a subscriber attached to nothing is sent none.
C9_FanoutIsolation ==
  \A c \in ClientIds : \A i \in 1..Len(sent[c]) :
    sent[c][i].type = "output" =>
      /\ attachedAgentId[c] # NoAgent /\ attachedTabId[c] # NoTab
      /\ sent[c][i].agentId = attachedAgentId[c]
      /\ sent[c][i].tabId = attachedTabId[c]

C9_Witness ==
  \E t \in TabIds :
    /\ op = Op("flush-timer", NoClient, tabAgent[t], t)
    /\ pub[t] # <<>> /\ pendingData[t] = <<>>
    /\ conn[Viewer] = "open"
    /\ attachedAgentId[Viewer] = tabAgent[t]
    /\ attachedTabId[Viewer] \in TabIds \ {t}
    /\ TabProcessOf(attachedAgentId[Viewer], attachedTabId[Viewer])
    /\ sent[Viewer] = <<>>

\* C10: a subscriber that attached to a tab when the tab's last seq was L, and
\* has stayed connected and attached to it, has been sent every chunk
\* published since, seq L+1, L+2, ... up to the tab's last seq, in that order.
C10_FanoutCompleteness ==
  \A c \in ClientIds :
    (conn[c] = "open" /\ TabProcessOf(attachedAgentId[c], attachedTabId[c])) =>
      /\ Len(got[c]) = getLastSeq(attachedAgentId[c], attachedTabId[c]) - attachSeq[c]
      /\ \A i \in 1..Len(got[c]) : got[c][i] = attachSeq[c] + i

C10_Witness ==
  \E c \in ClientIds :
    /\ conn[c] = "open"
    /\ TabProcessOf(attachedAgentId[c], attachedTabId[c])
    /\ attachSeq[c] >= 1
    /\ Len(got[c]) >= 2

\* data of the output frames among the frames sent to one client, in order
RECURSIVE OutputData(_)
OutputData(fs) ==
  IF fs = <<>> THEN <<>>
  ELSE (IF Head(fs).type = "output" THEN Head(fs).data ELSE <<>>) \o
       OutputData(Tail(fs))

OutputFrames(fs) == SelectSeq(fs, LAMBDA f : f.type = "output")

\* C11: the replay a successful attach delivers is exactly the data of the
\* chunks the tab retains, in order, nothing missing and nothing repeated,
\* also for a tab seeded from a persisted buffer.
C11_AttachReplay ==
  op.name = "attach" =>
    /\ OutputData(sent[op.client]) = HistoryOf(outputChunks[op.tabId])
    /\ Len(OutputFrames(sent[op.client])) <= 1
    /\ \A d \in ClientIds \ {op.client} : OutputFrames(sent[d]) = <<>>

C11_Witness ==
  /\ op.name = "attach"
  /\ origin[op.tabId] = "seeded"
  /\ Len(outputChunks[op.tabId]) = 2
  /\ outputChunks[op.tabId][1].seq = 0
  /\ Len(OutputData(sent[op.client])) >= 2

C13_DisconnectCleanup ==
  \A c \in ClientIds :
    conn[c] = "closed" =>
      /\ \A e \in controlOwners : e.val # c
      /\ ~Registered(c)
      /\ sent[c] = <<>>
      /\ attachedAgentId[c] = NoAgent /\ attachedTabId[c] = NoTab

C13_Witness ==
  \E c \in ClientIds : \E d \in ClientIds \ {c} :
    /\ conn[c] = "closed"
    /\ op = Op("close", c, attachedAgentId[d], attachedTabId[d])
    /\ attachedAgentId[d] # NoAgent /\ attachedTabId[d] # NoTab
    /\ ControlChangedFrame(FALSE) \in Range(sent[d])

HasControlChanged(fs) == \E i \in 1..Len(fs) : fs[i].type = "control-changed"

\* C14: releaseControl called for a subscriber that does not own the tab (on
\* its detach or close) leaves the control-owner map as it was and publishes
\* no control-changed event; called for the owner it removes exactly the
\* owner's entry and publishes control-changed with no owner, which every
\* open subscriber attached to the tab is sent with hasControl false.
C14_ReleaseControl ==
  [][(op'.name \in {"detach", "close"} /\ op'.agentId # NoAgent /\ op'.tabId # NoTab) =>
       LET c   == op'.client
           key == getControlKey(op'.agentId, op'.tabId)
       IN IF MapGet(controlOwners, key) = c
          THEN /\ [key |-> key, val |-> c] \in controlOwners
               /\ controlOwners' = controlOwners \ {[key |-> key, val |-> c]}
               /\ \A d \in ClientIds :
                    (conn'[d] = "open" /\ attachedAgentId[d] = op'.agentId
                       /\ attachedTabId[d] = op'.tabId)
                      => ControlChangedFrame(FALSE) \in Range(sent'[d])
          ELSE /\ controlOwners' = controlOwners
               /\ \A d \in ClientIds : ~HasControlChanged(sent'[d])]_vars

C14_Witness ==
  /\ op.name = "detach"
  /\ op.agentId # NoAgent /\ op.tabId # NoTab
  /\ getControlOwner(op.agentId, op.tabId) \notin {NoClient, op.client}
  /\ Frame("detached", NoAgent, NoTab, FALSE, <<>>, -1) \in Range(sent[op.client])

\* C15: once a detach frame has been handled the subscriber is Unattached,
\* with no attached agent and no attached tab, and owns no tab, whatever
\* state it was in before, the state where its attached tab was closed and
\* only the agent is still recorded included.
C15_DetachUnattached ==
  op.name = "detach" =>
    /\ attachedAgentId[op.client] = NoAgent
    /\ attachedTabId[op.client] = NoTab
    /\ \A e \in controlOwners : e.val # op.client

\* C16: a frame that is answered with an error frame (unparseable, attach or
\* start naming an unknown agent, attach naming an unknown tab or an agent
\* without tabs, close-tab or create-tab naming unknown ids) leaves the
\* subscriber's attached agent and tab, the control-owner map and the
\* registry as they were, and the connection open.
C16_ErrorLeavesState ==
  [][(op'.client \in ClientIds /\ ErrorFrame \in Range(sent'[op'.client])) =>
       /\ attachedAgentId' = attachedAgentId
       /\ attachedTabId' = attachedTabId
       /\ controlOwners' = controlOwners
       /\ regVars' = regVars
       /\ conn' = conn]_vars

C18_AgentStatusReduction ==
  \A a \in agents :
    LET any(s) == \E t \in Range(tabs[a]) : tabStatus[t] = s IN
    agentStatus[a] = IF any("running") THEN "running"
                     ELSE IF any("stopped") THEN "stopped"
                     ELSE "idle"

\* C19: startTab on a tab that is already running spawns no PTY and keeps
\* the tab's PTY, publishes no status event, and leaves the buffer, the seq
\* counter and the tab and agent statuses unchanged.
C19_StartIdempotent ==
  [][(op'.name = "start" /\ tabStatus[op'.tabId] = "running") =>
       /\ ptys' = ptys
       /\ tabPty' = tabPty
       /\ sent' = NoFrames
       /\ bufVars' = bufVars
       /\ statusVars' = statusVars]_vars

C19_Witness ==
  /\ op.name = "start"
  /\ conn[op.client] = "open"
  /\ sent = NoFrames
  /\ tabStatus[op.tabId] = "running"
  /\ tabPty[op.tabId] # NoPty /\ ptys[tabPty[op.tabId]].state = "live"
  /\ outputChunks[op.tabId] # <<>>

\* C20: when deleteAgent completes the agent is in neither the registry nor
\* the persisted list, none of its tabs has a control owner or a flush
\* timer, and none of its PTYs is live, whatever frames and PTY callbacks
\* were handled while the worktree removal was awaited.
C20_DeleteComplete ==
  op.name = "delete-agent" =>
    LET a == op.agentId IN
    /\ a \notin agents
    /\ a \notin persistedAgents
    /\ \A t \in Range(tabs[a]) :
         /\ MapGet(controlOwners, getControlKey(a, t)) = NoClient
         /\ getControlKey(a, t) \notin flushTimers
    /\ \A p \in PtyIds : ptys[p].agentId = a => ptys[p].state # "live"

\* C21 as stated: at construction every admitted agent has exactly one idle
\* tab whose buffer holds one chunk with seq 0 carrying the saved
\* scrollback, so that the next seq is 1, and an entry whose workDir is
\* missing is in neither the registry nor the persisted list.
C21_AsStated ==
  op.name = "init" =>
    \A a \in allocated :
      IF a \in agents
      THEN /\ a \in persistedAgents
           /\ Len(tabs[a]) = 1
           /\ tabStatus[tabs[a][1]] = "idle"
           /\ outputChunks[tabs[a][1]] = <<[seq |-> 0, data |-> persistedBuffer[a]]>>
           /\ currentSeq[tabs[a][1]] = 1
      ELSE a \notin persistedAgents

\* C21: at construction every admitted agent has exactly one idle tab
\* without PTY or pending data; a non-empty saved scrollback is its one
\* chunk with seq 0 and the next seq is 1, an empty one leaves the buffer
\* without chunks and the next seq 0; an entry whose workDir is missing is
\* in neither the registry nor the persisted list.
C21_RestartRecovery ==
  op.name = "init" =>
    \A a \in allocated :
      IF a \in agents
      THEN /\ a \in persistedAgents
           /\ Len(tabs[a]) = 1
           /\ tabStatus[tabs[a][1]] = "idle"
           /\ tabPty[tabs[a][1]] = NoPty
           /\ pendingData[tabs[a][1]] = <<>>
           /\ IF persistedBuffer[a] # <<>>
              THEN /\ outputChunks[tabs[a][1]] = <<[seq |-> 0, data |-> persistedBuffer[a]]>>
                   /\ currentSeq[tabs[a][1]] = 1
              ELSE /\ outputChunks[tabs[a][1]] = <<>>
                   /\ currentSeq[tabs[a][1]] = 0
      ELSE a \notin persistedAgents

C21_Witness ==
  /\ op.name = "init"
  /\ "a1" \in agents
  /\ persistedBuffer["a1"] = SeedData
  /\ currentSeq["t1"] = 1

\* the scrollback of a tab as a reader of its terminal saw it: the
\* restored scrollback followed by every byte its PTYs delivered
ObservedStream(t) ==
  (IF origin[t] = "seeded" THEN SeedData ELSE <<>>) \o written[t]

\* C22: after shutdown() the pendingData of every tab is empty.
C22_ShutdownDrainsPending ==
  op.name = "shutdown" =>
    \A a \in agents : \A t \in Range(tabs[a]) : pendingData[t] = <<>>

\* C23: after shutdown() the persisted outputBuffer of every agent is the
\* last PERSIST_LIMIT characters of the stream of its first tab, pending
\* bytes and bytes of trimmed chunks included.
C23_ShutdownPersists ==
  op.name = "shutdown" =>
    \A a \in agents \cap persistedAgents :
      tabs[a] # <<>> =>
        persistedBuffer[a] = SliceLast(ObservedStream(tabs[a][1]), PERSIST_LIMIT)

\* C24: when tryLocalMerge has returned without success or has thrown, the
\* HEAD of the source repository (branch or detached commit) is what it was
\* before the call and no merge is in progress; after a successful merge
\* HEAD is the new merge commit on targetBranch.
C24_MergeAtomicity ==
  merge.pc = "done" =>
    IF merge.result = "success"
    THEN /\ repo.tips[merge.targetBranch] = merge.preTip + 1
         /\ repo.head = HeadOn(merge.targetBranch, repo.tips)
    ELSE /\ repo.head = merge.preHead
         /\ ~repo.merging

\* C25: when a step of tryLocalMerge from the target checkout on has failed
\* unexpectedly, the original branch of the source repository is checked
\* out when the error is propagated.
C25_RestoreOnError ==
  (merge.pc = "done" /\ merge.result = "threw" /\ merge.inTry
     /\ merge.originalBranch # "") =>
    repo.head.branch = merge.originalBranch

C27_BoundedPublication ==
  \A t \in TabIds : \A i \in 1..Len(writeLog[t]) :
    LET w   == writeLog[t][i]
        key == getControlKey(tabAgent[t], t)
    IN \A k \in w.from..w.to :
         \/ \E j \in 1..Len(pub[t]) :
              /\ k \in Range(pub[t][j].data)
              /\ pubAt[t][j] <= w.at + FLUSH_DEBOUNCE
              /\ w.due = -1 => pubAt[t][j] = w.at
         \/ /\ k \in Range(pendingData[t])
            /\ now <= w.at + FLUSH_DEBOUNCE
            /\ key \in flushTimers
            /\ timerDue[key] >= now
            /\ timerDue[key] <= w.at + FLUSH_DEBOUNCE

C27_Witness ==
  \E t \in TabIds :
    /\ Len(writeLog[t]) >= 2
    /\ Len(pub[t]) >= 2
    /\ pubAt[t][1] = writeLog[t][1].at + FLUSH_DEBOUNCE
    /\ writeLog[t][Len(writeLog[t])].due = -1
    /\ pubAt[t][Len(pub[t])] = writeLog[t][Len(writeLog[t])].at

\* C28: POST /api/agents answers 400 when name or sourceRepo is missing and
\* 500 when the worktree cannot be created, and in both cases the registry,
\* the tabs and the persisted list stay as they were and no frame (so no
\* agents-updated) is sent; a 201 adds exactly one agent, persisted, with one
\* idle tab of the default name, and no other answer of the route adds one.
C28_PostAgents ==
  [][/\ op'.name \in {"post-agents-missing", "create-agent-fail", "create-agent"} =>
       /\ httpReply'.route = "post-agents"
       /\ op'.name = "post-agents-missing" => httpReply'.status = 400
       /\ op'.name = "create-agent-fail" => httpReply'.status = 500
       /\ httpReply'.status \in {400, 500} =>
            /\ UNCHANGED <<agents, tabs, tabAgent, tabName, persistVars, statusVars>>
            /\ sent' = NoFrames
       /\ httpReply'.status = 201 =>
            \E a \in AgentIds \ agents :
              /\ agents' = agents \cup {a}
              /\ persistedAgents' = persistedAgents \cup {a}
              /\ Len(tabs'[a]) = 1
              /\ tabStatus'[tabs'[a][1]] = "idle"
              /\ tabName'[tabs'[a][1]] = 0
              /\ \A b \in agents : tabs'[b] = tabs[b]
     /\ ~(agents' \subseteq agents) =>
          op'.name = "create-agent" /\ httpReply'.status = 201]_vars

\* a worktree failure answered 500 while a viewer is registered, after an
\* earlier request was answered by creating an agent
C28_Witness ==
  /\ op.name = "create-agent-fail"
  /\ httpReply = HttpReply("post-agents", 500)
  /\ Registered(Viewer)
  /\ \E a \in agents : origin[tabs[a][1]] = "created"

\* C29: a request on an agent route (GET agent, DELETE, status, diff, pr,
\* merge) that names an id absent from the registry is answered 404 and
\* changes nothing of the server's state.
C29_UnknownAgent404 ==
  [][op'.name = "http-unknown-agent" =>
       /\ httpReply'.status = 404
       /\ UNCHANGED <<regVars, persistVars, statusVars, ptyVars, bufVars,
                      clientVars, controlOwners>>]_vars

\* C30: createTab without a name names the tab `Terminal N` with N the
\* agent's tab count plus one; N never repeats for an agent, also after
\* tabs were closed, and no two open tabs share an auto-generated name.
\* (tabName keeps the N of a closed tab; 0 is the default tab's "Terminal",
\* -1 a name the client chose.)
C30_AutoNames ==
  /\ op.name = "create-tab" /\ tabName[op.tabId] # -1 =>
       tabName[op.tabId] = Len(tabs[op.agentId])
  /\ \A t \in TabIds : \A u \in TabIds \ {t} :
       /\ tabAgent[t] # NoAgent
       /\ tabAgent[t] = tabAgent[u]
       /\ tabName[t] > 0
       => tabName[t] # tabName[u]

\* the frames of one type among the frames sent to a client
FramesOfType(fs, type) == {i \in 1..Len(fs) : fs[i].type = type}

\* C31: closeTab(A,T) leaves T out of A's tab list and (A,T) without control
\* owner and flush timer; every subscriber that was attached to (A,T) is
\* sent tab-closed and is then attached to A with no tab; every other
\* subscriber keeps its attachment.  A subscriber attached to an agent with
\* no tab is sent no output, and its input reaches no PTY.
C31_CloseTab ==
  [][/\ op'.name = "close-tab" =>
          LET a == op'.agentId
              t == op'.tabId
          IN /\ t \notin Range(tabs'[a])
             /\ ~MapHas(controlOwners', getControlKey(a, t))
             /\ getControlKey(a, t) \notin flushTimers'
             /\ \A d \in ClientIds :
                  IF Registered(d) /\ attachedAgentId[d] = a /\ attachedTabId[d] = t
                  THEN /\ \E i \in FramesOfType(sent'[d], "tab-closed") :
                            sent'[d][i].agentId = a /\ sent'[d][i].tabId = t
                       /\ attachedAgentId'[d] = a
                       /\ attachedTabId'[d] = NoTab
                  ELSE /\ attachedAgentId'[d] = attachedAgentId[d]
                       /\ attachedTabId'[d] = attachedTabId[d]
     /\ \A d \in ClientIds :
          attachedAgentId'[d] # NoAgent /\ attachedTabId'[d] = NoTab =>
            FramesOfType(sent'[d], "output") = {}
     /\ op'.name = "input" /\ attachedTabId[op'.client] = NoTab =>
          ptyIn' = {}]_vars

\* a tab was closed while one subscriber was attached to it and another to
\* another tab of the agent, and its PTY wrote afterwards
C31_Witness ==
  /\ op.name = "pty-data-dropped"
  /\ \E a \in AgentIds :
       /\ attachedAgentId["c1"] = a /\ attachedTabId["c1"] = NoTab
       /\ attachedAgentId["c2"] = a /\ attachedTabId["c2"] \in Range(tabs[a])

\* C32: whenever tab-status stopped is published for a tab, by stopTab or by
\* the exit callback of a PTY, the pendingData of the tab is empty and every
\* byte its PTYs delivered before has been published in a chunk.
C32_FlushBeforeStopped ==
  op.name \in {"stop", "pty-exit"} =>
    /\ pendingData[op.tabId] = <<>>
    /\ HistoryOf(pub[op.tabId]) = written[op.tabId]

\* C33: tryLocalMerge takes as target the caller's override; else the branch
\* origin/HEAD points to; else main if it exists locally; else master if it
\* exists locally; else it fails, and then it has changed neither the
\* worktree (no auto-commit) nor the source repository.
C33_TargetBranch ==
  [][op'.name = "merge-detect" =>
       /\ pick'.override # "" => pick'.target = pick'.override
       /\ pick'.override = "" /\ pick'.originHead # "" =>
            pick'.target = pick'.originHead
       /\ pick'.override = "" /\ pick'.originHead = "" =>
            /\ "main" \in pick'.locals => pick'.target = "main"
            /\ "main" \notin pick'.locals /\ "master" \in pick'.locals =>
                 pick'.target = "master"
            /\ pick'.locals = {} => pick'.target = ""
       /\ pick'.target = "" => UNCHANGED <<worktree, repo, merge>>]_vars

\* a merge without override and origin/HEAD in a repository that has main
\* and master, which auto-committed the changes of the worktree
C33_Witness ==
  /\ op.name = "merge-detect"
  /\ pick.override = "" /\ pick.originHead = ""
  /\ pick.locals = {"main", "master"}
  /\ pick.target = "main"
  /\ worktree.commits > 0 /\ ~worktree.dirty

\* C34: a stale PTY exit never clobbers a newer PTY: a PTY that was spawned
\* for a tab of the registry and was neither killed nor has exited is the
\* PTY attached to its tab, the tab is running, and no second such PTY
\* feeds the same tab.
C34_StaleExit ==
  \A p \in PtyIds :
    ptys[p].state = "live" /\ TabProcessOf(ptys[p].agentId, ptys[p].tabId) =>
      /\ tabPty[ptys[p].tabId] = p
      /\ tabStatus[ptys[p].tabId] = "running"
      /\ \A q \in PtyIds \ {p} :
           ptys[q].state = "live" => ptys[q].tabId # ptys[p].tabId

\* C35: whoever is recorded as control owner of (A,T) is a connected
\* subscriber attached to exactly (A,T); so a subscriber owns at most one
\* tab, and an input frame that names a tab other than the one its sender
\* is attached to reaches no PTY.
C35_OwnerIsAttached ==
  /\ \A e \in controlOwners :
       /\ e.val \in ClientIds
       /\ conn[e.val] = "open"
       /\ getControlKey(attachedAgentId[e.val], attachedTabId[e.val]) = e.key
  /\ \A e \in controlOwners : \A f \in controlOwners :
       e.val = f.val => e.key = f.key
  /\ op.name = "input" /\ op.tabId # attachedTabId[op.client] => ptyIn = {}

\* a subscriber that owns its attached tab typed into another tab of the
\* registry while the other subscriber was attached there, and nothing
\* reached a PTY
C35_Witness ==
  /\ op.name = "input"
  /\ op.tabId \notin {NoTab, BogusTab, attachedTabId[op.client]}
  /\ hasControl(attachedAgentId[op.client], attachedTabId[op.client], op.client)
  /\ getPty(attachedAgentId[op.client], op.tabId) # NoPty
  /\ ptyIn = {}

\* C36: the attachment every subscriber records names an agent of the
\* registry and, when it names a tab, a tab of that agent; and every
\* control-owner entry is for a tab of the registry.
C36_AttachmentsValid ==
  /\ \A c \in ClientIds :
       attachedAgentId[c] # NoAgent =>
         /\ attachedAgentId[c] \in agents
         /\ attachedTabId[c] # NoTab =>
              TabProcessOf(attachedAgentId[c], attachedTabId[c])
  /\ \A e \in controlOwners : TabProcessOf(e.key[1], e.key[2])

\* C37: for every connected subscriber attached to (A,T), the hasControl
\* most recently sent to it in an attached or control-changed frame is true
\* exactly when it is the owner of (A,T) in the control-owner map.
C37_ViewOfControl ==
  \A c \in ClientIds :
    conn[c] = "open" /\ attachedAgentId[c] # NoAgent /\ attachedTabId[c] # NoTab =>
      (toldControl[c] = "yes" <=>
         hasControl(attachedAgentId[c], attachedTabId[c], c))

\* C38: once a tab was closed or its agent deleted, no event naming the tab
\* is published any more: no output chunk, no tab-status (the exit callback
\* of a PTY publishes one) and no control-changed (every change of the
\* tab's control owner and every gain-control publishes one).
C38_SilentAfterClose ==
  [][\A t \in TabIds :
       tabAgent[t] # NoAgent /\ ~TabProcessOf(tabAgent[t], t) =>
         /\ pub'[t] = pub[t]
         /\ ~(op'.name \in {"pty-exit", "stop", "start", "attach"} /\ op'.tabId = t)
         /\ ~(op'.name = "gain-control" /\ op'.tabId = t)
         /\ getControlOwner(tabAgent[t], t)' = getControlOwner(tabAgent[t], t)]_vars

\* C39: before shutdown, for every tab in the registry a flush timer is
\* armed exactly when the tab's pendingData is not empty (the timers are a
\* map keyed by tab, so there is at most one per tab), and pendingData is
\* shorter than MAX_CHUNK_SIZE.
C39_TimerIffPending ==
  op.name # "shutdown" =>
    \A a \in AgentIds : \A t \in TabIds :
      TabProcessOf(a, t) =>
        /\ (getControlKey(a, t) \in flushTimers <=> pendingData[t] # <<>>)
        /\ Len(pendingData[t]) < MAX_CHUNK_SIZE

\* C40: whenever no createAgent and no deleteAgent call is in progress, the
\* agent ids of the persisted list are those of the registry; and the exit
\* callback of a PTY adds no entry to the persisted list.
C40_PersistedIsRegistry ==
  [][/\ creating = {} /\ deleting = {} => persistedAgents = agents
     /\ creating' = {} /\ deleting' = {} => persistedAgents' = agents'
     /\ op'.name = "pty-exit" => persistedAgents' = persistedAgents]_vars

\* the PTY of a deleted agent exited after the delete had completed
C40_Witness ==
  /\ op.name = "pty-exit"
  /\ op.agentId \in allocated \ agents
  /\ op.agentId \notin persistedAgents
  /\ creating = {} /\ deleting = {}

====
